---- MODULE Spec2Model ----
(***************************************************************************)
(* choir: environment registry (internal/state), worktree backend          *)
(* (internal/backend/worktree) and the env create / env rm command flows   *)
(* (cmd/env), modelled as independent processes sharing one registry       *)
(* database and one git repository.                                        *)
(***************************************************************************)
EXTENDS Integers, Sequences, FiniteSets, TLC

VARIABLES
    db,       \* environments table: id -> row, or NoRow
    fs,       \* repository and workspace directories, keyed by environment id
    cmd,      \* command each process is running
    pc,       \* position of each process inside its command
    loc,      \* local variables of each process
    ret,      \* result of the last direct registry call
    delLog,   \* per id: results of DeleteEnvironment since the id was last inserted
    started,  \* number of commands invoked so far
    used,     \* ids GenerateID has returned so far
    hist,     \* direct backend calls so far: workspaces Create returned and
              \* Destroy has not removed since, and whether a call failed
    ws,       \* host files the setup runner and Exec work on, and the run in progress
    reg,      \* backend registry: factory map, its lock, callers' local values
    mig,      \* schema of the database file, schema_migrations, open transactions
    gitcfg,   \* git configuration of the repository and of each of its worktrees
    sqlite    \* locks on the database file and the read calls in progress

vars == <<db, fs, cmd, pc, loc, ret, delLog, started, used, hist, ws, reg, mig,
         gitcfg, sqlite>>

----------------------------------------------------------------------------
(* Bounds *)

MaxInvocations == 2
MaxPrefixLen == 2
MaxSeconds == 1
MaxDelLog == 4

Procs == {"p1", "p2"}

----------------------------------------------------------------------------
(* Identifiers and characters *)

\* ids produced by GenerateID are lowercase hexadecimal strings; a string is
\* modelled as a sequence of one-character strings.
IdSeq == << <<"a", "a">>, <<"a", "b">>, <<"b", "a">> >>
IDs == {IdSeq[i] : i \in 1..Len(IdSeq)}

\* characters a caller may type in a prefix: lowercase hex, uppercase hex, non-hex
Chars == {"a", "b", "A", "g"}

Prefixes == UNION {[1..n -> Chars] : n \in 0..MaxPrefixLen}

HexDigits ==
    {"0", "1", "2", "3", "4", "5", "6", "7", "8", "9",
     "a", "b", "c", "d", "e", "f", "A", "B", "C", "D", "E", "F"}

isHexString(s) == \A i \in 1..Len(s) : s[i] \in HexDigits

UpperLetters == <<"A", "B", "C", "D", "E", "F", "G">>
LowerLetters == <<"a", "b", "c", "d", "e", "f", "g">>

\* ASCII case folding applied by the LIKE operator
FoldCase(c) ==
    IF \E i \in 1..Len(UpperLetters) : UpperLetters[i] = c
    THEN LowerLetters[CHOOSE i \in 1..Len(UpperLetters) : UpperLetters[i] = c]
    ELSE c

\* SQL LIKE: '%' matches any run of characters, '_' any one character, any
\* other character matches itself ignoring ASCII case.
RECURSIVE LikeMatch(_, _)
LikeMatch(pat, str) ==
    IF pat = <<>> THEN str = <<>>
    ELSE IF Head(pat) = "%"
         THEN \E k \in 0..Len(str) : LikeMatch(Tail(pat), SubSeq(str, k + 1, Len(str)))
    ELSE IF str = <<>> THEN FALSE
    ELSE IF Head(pat) = "_" THEN LikeMatch(Tail(pat), Tail(str))
    ELSE FoldCase(Head(pat)) = FoldCase(Head(str)) /\ LikeMatch(Tail(pat), Tail(str))

----------------------------------------------------------------------------
(* Registry rows *)

StatusProvisioning == "provisioning"
StatusReady == "ready"
StatusFailed == "failed"
StatusRemoved == "removed"

ValidStatuses == {StatusProvisioning, StatusReady, StatusFailed, StatusRemoved}

\* variant: every status is accepted
IsValidStatus_AcceptAll(s) == TRUE

IsValidStatus(s) == s \in ValidStatuses

NoRow == [absent |-> TRUE]
NoBackendID == <<>>

\* Backend.Create returns the worktree path: <repo-parent>/choir-<id>
worktreePrefix == "choir-"
WorktreePath(id) == <<worktreePrefix, id>>
PathID(path) == path[2]

\* created_at is stored as env.CreatedAt.UTC().Format(time.RFC3339): the
\* fraction of a second is dropped.  Times are counted in ticks.
TicksPerSecond == 2
FormatTime(t) == t \div TicksPerSecond
ParseTime(c) == c * TicksPerSecond

\* values of the Environment struct the model distinguishes
Environment(id, status, backendID, backendName, repoPath, createdAt) ==
    [id |-> id, status |-> status, backend_id |-> backendID,
     backend |-> backendName, repo_path |-> repoPath, created_at |-> createdAt]

\* the columns written for env (the id is the key of the table)
Row(env) ==
    [status |-> env.status, backend_id |-> env.backend_id, backend |-> env.backend,
     repo_path |-> env.repo_path, created_at |-> FormatTime(env.created_at)]

Stored(d) == {id \in IDs : d[id] # NoRow}

\* scanEnvironment: the row read back as an Environment
Env(d, id) ==
    Environment(id, d[id].status, d[id].backend_id, d[id].backend, d[id].repo_path,
                ParseTime(d[id].created_at))

\* the id column is the primary key of the table
UniqueViolation(d, id) == d[id] # NoRow

----------------------------------------------------------------------------
(* Registry operations (internal/state/environment.go).  Each takes the table *)
(* d and returns the new table with the error value the Go method returns.   *)
(* execFails is the outcome of db.Exec itself: the statement did not run.    *)

ErrNil == "nil"
ErrInvalidStatus == "ErrInvalidStatus"
ErrEnvironmentNotFound == "ErrEnvironmentNotFound"
ErrInvalidPrefix == "ErrInvalidPrefix"
ErrAmbiguousPrefix == "ErrAmbiguousPrefix"
ErrExec == "ErrExec"

Result(d, err) == [db |-> d, err |-> err]

\* variant: INSERT OR REPLACE
CreateEnvironment_Upsert(d, env, execFails) ==
    IF ~IsValidStatus(env.status) THEN Result(d, ErrInvalidStatus)
    ELSE IF execFails THEN Result(d, ErrExec)
    ELSE Result([d EXCEPT ![env.id] = Row(env)], ErrNil)

\* INSERT INTO environments ...; id is the primary key
CreateEnvironment(d, env, execFails) ==
    IF ~IsValidStatus(env.status) THEN Result(d, ErrInvalidStatus)
    ELSE IF execFails \/ UniqueViolation(d, env.id) THEN Result(d, ErrExec)
    ELSE Result([d EXCEPT ![env.id] = Row(env)], ErrNil)

\* variant: the affected-row count is not checked
UpdateEnvironment_NoRowsCheck(d, env, execFails) ==
    IF ~IsValidStatus(env.status) THEN Result(d, ErrInvalidStatus)
    ELSE IF execFails THEN Result(d, ErrExec)
    ELSE IF d[env.id] = NoRow THEN Result(d, ErrNil)
    ELSE Result([d EXCEPT ![env.id] = [Row(env) EXCEPT !.created_at = d[env.id].created_at]],
                ErrNil)

\* UPDATE environments SET backend = ?, backend_id = ?, repo_path = ?, ...,
\* status = ? WHERE id = ?: created_at is not among the columns set
UpdateEnvironment(d, env, execFails) ==
    IF ~IsValidStatus(env.status) THEN Result(d, ErrInvalidStatus)
    ELSE IF execFails THEN Result(d, ErrExec)
    ELSE IF d[env.id] = NoRow THEN Result(d, ErrEnvironmentNotFound)
    ELSE Result([d EXCEPT ![env.id] = [Row(env) EXCEPT !.created_at = d[env.id].created_at]],
                ErrNil)

\* variant: the affected-row count is not checked
DeleteEnvironment_NoRowsCheck(d, id, execFails) ==
    IF execFails THEN Result(d, ErrExec)
    ELSE Result([d EXCEPT ![id] = NoRow], ErrNil)

\* DELETE FROM environments WHERE id = ?
DeleteEnvironment(d, id, execFails) ==
    IF execFails THEN Result(d, ErrExec)
    ELSE IF d[id] = NoRow THEN Result(d, ErrEnvironmentNotFound)
    ELSE Result([d EXCEPT ![id] = NoRow], ErrNil)

\* SELECT ... FROM environments WHERE id LIKE ? || '%'
PrefixRows(d, prefix) ==
    {id \in Stored(d) : LikeMatch(Append(prefix, "%"), id)}

\* variant: several matching rows are resolved to one of them
GetEnvironmentByPrefix_FirstMatch(d, prefix) ==
    IF prefix = <<>> \/ ~isHexString(prefix)
    THEN [err |-> ErrInvalidPrefix, envs |-> {}]
    ELSE LET envs == {Env(d, id) : id \in PrefixRows(d, prefix)}
         IN  IF Cardinality(envs) = 0 THEN [err |-> ErrEnvironmentNotFound, envs |-> {}]
             ELSE [err |-> ErrNil, envs |-> {CHOOSE e \in envs : TRUE}]

GetEnvironmentByPrefix(d, prefix) ==
    IF prefix = <<>> \/ ~isHexString(prefix)
    THEN [err |-> ErrInvalidPrefix, envs |-> {}]
    ELSE LET envs == {Env(d, id) : id \in PrefixRows(d, prefix)}
         IN  IF Cardinality(envs) = 0 THEN [err |-> ErrEnvironmentNotFound, envs |-> {}]
             ELSE IF Cardinality(envs) = 1 THEN [err |-> ErrNil, envs |-> envs]
             ELSE [err |-> ErrAmbiguousPrefix, envs |-> envs]

\* ListOptions: an empty RepoPath, Backend or Statuses is no filter
ListOption(repoPath, backendName, statuses) ==
    [RepoPath |-> repoPath, Backend |-> backendName, Statuses |-> statuses]

\* variant: the conditions are joined with OR
Matches_AnyFilter(d, opts) ==
    {id \in Stored(d) :
        \/ opts.RepoPath = "" /\ opts.Backend = "" /\ opts.Statuses = {}
        \/ opts.RepoPath # "" /\ d[id].repo_path = opts.RepoPath
        \/ opts.Backend # "" /\ d[id].backend = opts.Backend
        \/ opts.Statuses # {} /\ d[id].status \in opts.Statuses}

\* WHERE repo_path = ? AND backend = ? AND status IN (?, ...), each condition
\* present only when its option is set
Matches(d, opts) ==
    {id \in Stored(d) :
        /\ opts.RepoPath = "" \/ d[id].repo_path = opts.RepoPath
        /\ opts.Backend = "" \/ d[id].backend = opts.Backend
        /\ opts.Statuses = {} \/ d[id].status \in opts.Statuses}

\* the orders in which the ids of S can be enumerated
Enumerations(S) ==
    {sq \in [1..Cardinality(S) -> S] : \A i, j \in 1..Cardinality(S) : sq[i] = sq[j] => i = j}

\* ORDER BY created_at DESC: the stored strings all have the RFC3339 layout,
\* so comparing them compares the seconds; rows of one second come in any order
OrderedByCreatedAtDesc(d, sq) ==
    \A i \in 1..(Len(sq) - 1) : d[sq[i]].created_at >= d[sq[i + 1]].created_at

\* ListEnvironments(opts): the slices the query may return
ListEnvironments(d, opts) ==
    {[i \in 1..Len(sq) |-> Env(d, sq[i])] :
        sq \in {q \in Enumerations(Matches(d, opts)) : OrderedByCreatedAtDesc(d, q)}}

----------------------------------------------------------------------------
(* Worktree backend (internal/backend/worktree/worktree.go).  fs records,   *)
(* per id, whether the workspace directory choir-<id> exists, whether it    *)
(* holds the marker file and the env file, whether the branch <prefix><id>  *)
(* exists, and whether git lists the path as a worktree of the repository.  *)

StateRunning == "running"
StateNotFound == "not_found"
StateError == "error"

\* files: managed paths occupied by a regular file; foreign: worktrees of the
\* repository at paths without the managed prefix, with or without a marker
EmptyFS ==
    [dirs |-> {}, markers |-> {}, envfiles |-> {}, branches |-> {}, wtAdmin |-> {},
     files |-> {}, foreign |-> {}]

\* strings.HasPrefix(filepath.Base(path), worktreePrefix)
HasManagedPrefix(path) == path[1] = worktreePrefix

IsDir(f, path) ==
    IF HasManagedPrefix(path) THEN PathID(path) \in f.dirs
    ELSE \E w \in f.foreign : w.path = path

IsFile(f, path) == HasManagedPrefix(path) /\ PathID(path) \in f.files

PathExists(f, path) == IsDir(f, path) \/ IsFile(f, path)

HasMarker(f, path) ==
    IF HasManagedPrefix(path) THEN PathID(path) \in f.markers
    ELSE \E w \in f.foreign : w.path = path /\ w.marker

\* git worktree add -b <branch> <path> <base> can succeed only when the path
\* is free, the branch name is free and the path is not already registered.
AddCanSucceed(f, id) ==
    id \notin f.dirs /\ id \notin f.files /\ id \notin f.branches /\ id \notin f.wtAdmin

GitWorktreeAdd(f, id) ==
    [f EXCEPT !.dirs = @ \cup {id}, !.branches = @ \cup {id}, !.wtAdmin = @ \cup {id}]

\* variant: the marker file is never written
WriteMarker_Skipped(f, id) == f

WriteMarker(f, id) == [f EXCEPT !.markers = @ \cup {id}]

\* os.RemoveAll(path) that ran to completion
RemoveAll(f, id) ==
    [f EXCEPT !.dirs = @ \ {id}, !.markers = @ \ {id}, !.envfiles = @ \ {id}]

\* git worktree remove --force <path>: removes the directory and the
\* registration; the branch is kept.
GitWorktreeRemove(f, id) == [RemoveAll(f, id) EXCEPT !.wtAdmin = @ \ {id}]

\* Destroy(backendID).  gitOK: findMainRepo and git worktree remove succeed;
\* rmOK: the os.RemoveAll fallback succeeds; lost: files a failed RemoveAll
\* had already deleted.
Destroy(f, path, gitOK, rmOK, lost) ==
    LET id == PathID(path) IN
    IF id \in f.files
    THEN IF rmOK THEN [fs |-> [f EXCEPT !.files = @ \ {id}], err |-> FALSE]
         ELSE [fs |-> f, err |-> TRUE]
    ELSE IF id \notin f.dirs THEN [fs |-> f, err |-> FALSE]
    ELSE IF gitOK /\ id \in f.wtAdmin THEN [fs |-> GitWorktreeRemove(f, id), err |-> FALSE]
    ELSE IF rmOK THEN [fs |-> RemoveAll(f, id), err |-> FALSE]
    ELSE [fs |-> [f EXCEPT !.markers = IF "marker" \in lost THEN @ \ {id} ELSE @,
                           !.envfiles = IF "env" \in lost THEN @ \ {id} ELSE @],
          err |-> TRUE]

LostChoices == SUBSET {"marker", "env"}

\* an os.Stat that fails with an error other than "does not exist" (such as
\* permission denied): of the path itself, or of the marker inside it
NoStatFault == "none"
StatFaults == {NoStatFault, "path", "marker"}

\* Status(backendID): the State reported; the error result is always nil
Status(f, path, fault) ==
    IF fault # "path" /\ ~PathExists(f, path) THEN StateNotFound
    ELSE IF fault = "path" THEN StateError
    ELSE IF ~IsDir(f, path) THEN StateError
    ELSE IF fault # "marker" /\ ~HasMarker(f, path) THEN StateError
    ELSE StateRunning

\* variant: the existence of the path is not checked
Start_NoCheck(f, path, fault) == [fs |-> f, err |-> FALSE]

\* Start(backendID): an error when os.Stat reports that the path does not exist
Start(f, path, fault) == [fs |-> f, err |-> fault # "path" /\ ~PathExists(f, path)]

\* Stop(backendID): as Start
Stop(f, path, fault) == [fs |-> f, err |-> fault # "path" /\ ~PathExists(f, path)]

\* variant: the marker is not looked for
isChoirManaged_PrefixOnly(f, path) == HasManagedPrefix(path)

\* isChoirManaged(worktreePath): the name has the prefix and os.Stat finds the marker
isChoirManaged(f, path) == HasManagedPrefix(path) /\ IsDir(f, path) /\ HasMarker(f, path)

\* the entries of git worktree list --porcelain besides the main worktree
ListedWorktrees(f) ==
    {WorktreePath(id) : id \in f.wtAdmin} \cup {w.path : w \in f.foreign}

\* List(): gitOK tells whether git worktree list ran
List(f, gitOK) ==
    IF ~gitOK THEN [paths |-> {}, err |-> TRUE]
    ELSE [paths |-> {path \in ListedWorktrees(f) : isChoirManaged(f, path)}, err |-> FALSE]


----------------------------------------------------------------------------
(* Environment export artifact (setup.go: writeEnvironment) and the shell  *)
(* that sources it.  A value is a sequence of one-character strings.       *)

MaxValueLen == 2

Quote == "'"
Backslash == "\\"
Dollar == "$"
Space == " "

\* characters of a value: a letter, and the ones a shell treats specially
ValueChars == {"a", Space, Dollar, Quote, Backslash}
Values == UNION {[1..n -> ValueChars] : n \in 0..MaxValueLen}

\* variable names, in the order sort.Strings puts them
EnvKeys == <<"A", "B">>
EnvMaps == UNION {[ks -> Values] : ks \in SUBSET {EnvKeys[i] : i \in 1..Len(EnvKeys)}}

\* variant: the value is written as it is
EscapeValue_None(v) == v

\* strings.ReplaceAll(value, "'", "'\\''")
RECURSIVE EscapeValue(_)
EscapeValue(v) ==
    IF v = <<>> THEN <<>>
    ELSE (IF Head(v) = Quote THEN <<Quote, Backslash, Quote, Quote>> ELSE <<Head(v)>>)
         \o EscapeValue(Tail(v))

\* fmt.Sprintf("export %s='%s'\n", key, escapedValue): the key and the text
\* that follows the = sign
ExportLine(key, value) ==
    [kind |-> "export", key |-> key, word |-> <<Quote>> \o EscapeValue(value) \o <<Quote>>]

\* the two comment lines and the empty line at the head of the file
EnvHeader == <<[kind |-> "comment"], [kind |-> "comment"], [kind |-> "blank"]>>

NoFile == [absent |-> TRUE]

\* keys of the map, sorted
SortedKeys(env) == SelectSeq(EnvKeys, LAMBDA k : k \in DOMAIN env)

\* the lines writeEnvironment writes for a non-empty map
EnvFileText(env) ==
    EnvHeader \o [i \in 1..Len(SortedKeys(env)) |->
                     ExportLine(SortedKeys(env)[i], env[SortedKeys(env)[i]])]

\* variant: the file is written for an empty map as well
writeEnvironment_Always(file, env, createOK) ==
    IF ~createOK THEN [file |-> file, err |-> TRUE]
    ELSE [file |-> EnvFileText(env), err |-> FALSE]

\* writeEnvironment(env): the .choir-env file afterwards and the error;
\* createOK tells whether os.Create succeeds
writeEnvironment(file, env, createOK) ==
    IF DOMAIN env = {} THEN [file |-> file, err |-> FALSE]
    ELSE IF ~createOK THEN [file |-> file, err |-> TRUE]
    ELSE [file |-> EnvFileText(env), err |-> FALSE]

\* the shell skips the rest of a name after an unquoted $
RECURSIVE SkipName(_)
SkipName(w) == IF w # <<>> /\ Head(w) = "a" THEN SkipName(Tail(w)) ELSE w

\* How a shell reads the word after "export KEY=": quote tells whether the
\* reader is inside single quotes.  Inside them every character is literal;
\* outside, a backslash makes the next character literal, a space ends the
\* word, $name expands (to nothing, the name being unset) and an unclosed
\* quote is a syntax error.
RECURSIVE ParseWord(_, _)
ParseWord(w, quote) ==
    LET Cons(c, r) == IF r.ok THEN [ok |-> TRUE, value |-> <<c>> \o r.value] ELSE r
    IN  IF w = <<>> THEN [ok |-> ~quote, value |-> <<>>]
        ELSE IF quote
             THEN IF Head(w) = Quote THEN ParseWord(Tail(w), FALSE)
                  ELSE Cons(Head(w), ParseWord(Tail(w), TRUE))
        ELSE IF Head(w) = Quote THEN ParseWord(Tail(w), TRUE)
        ELSE IF Head(w) = Backslash
             THEN IF Tail(w) = <<>> THEN [ok |-> TRUE, value |-> <<>>]
                  ELSE Cons(Head(Tail(w)), ParseWord(Tail(Tail(w)), FALSE))
        ELSE IF Head(w) = Space THEN [ok |-> TRUE, value |-> <<>>]
        ELSE IF Head(w) = Dollar /\ Tail(w) # <<>> /\ Head(Tail(w)) = "a"
             THEN ParseWord(SkipName(Tail(w)), FALSE)
        ELSE Cons(Head(w), ParseWord(Tail(w), FALSE))

\* shells the SHELL variable or the /bin/sh fallback may name: one that has
\* the source builtin, and a POSIX shell that has only "."
Shells == {"bash", "sh"}
HasSourceBuiltin(shell) == shell = "bash"

ExportLines(file) == SelectSeq(file, LAMBDA l : l.kind = "export")

\* source <file>: the variables exported, or failure
Source(file, shell) ==
    LET lines == ExportLines(file)
        ok == /\ HasSourceBuiltin(shell)
              /\ \A i \in 1..Len(lines) : ParseWord(lines[i].word, FALSE).ok
    IN  [ok |-> ok,
         env |-> IF ok
                 THEN [k \in {lines[i].key : i \in 1..Len(lines)} |->
                          ParseWord(lines[CHOOSE i \in 1..Len(lines) : lines[i].key = k].word,
                                    FALSE).value]
                 ELSE <<>>]

----------------------------------------------------------------------------
(* File mounts (setup.go: handleFile, copyFile, copyDir).  A path is a     *)
(* sequence of components; a directory entry names an inode, and the       *)
(* content of a regular file is kept per inode.                            *)

WorkDir == <<"/", "ws">>

\* what mounts may name as their source: a file, a directory holding one
\* file, and a path where nothing is
SrcFile == <<"/", "src", "f">>
SrcDir == <<"/", "src", "d">>
SrcMissing == <<"/", "src", "none">>
Sources == {SrcFile, SrcDir, SrcMissing}

\* the one entry of the source directory
Child == <<"g">>

\* targets: relative to the workspace, or absolute
RelTarget == <<"t">>
AbsTarget == <<"/", "opt", "t">>
Targets == {RelTarget, AbsTarget}

FileMounts == [source : Sources, target : Targets, readOnly : BOOLEAN]

\* filepath.IsAbs
IsAbs(path) == path # <<>> /\ Head(path) = "/"

\* variant: the target is used as given
Resolve_AsGiven(target) == target

\* a relative target is joined to the work directory
Resolve(target) == IF IsAbs(target) THEN target ELSE WorkDir \o target

TopPaths == {SrcFile, SrcDir, SrcMissing, RelTarget, AbsTarget, WorkDir \o RelTarget}
AllPaths == TopPaths \cup {path \o Child : path \in TopPaths}

Inodes == {1, 2, 3, 4, 5, 6}
OriginalData == "x"
EditedData == "y"

NoNode == [kind |-> "none"]
FileNode(ino) == [kind |-> "file", ino |-> ino]
DirNode == [kind |-> "dir"]
LinkNode(path) == [kind |-> "symlink", link |-> path]

\* the host before any mount
TreeInit ==
    [path \in AllPaths |->
        IF path = SrcFile THEN FileNode(1)
        ELSE IF path = SrcDir THEN DirNode
        ELSE IF path = SrcDir \o Child THEN FileNode(2)
        ELSE NoNode]

DataInit == [ino \in Inodes |-> OriginalData]

IsPrefixOf(a, b) == Len(a) <= Len(b) /\ SubSeq(b, 1, Len(a)) = a

\* the entry a path leads to when symbolic links on the way are followed
\* (os.Stat, os.Open): links here never point at links
Follow(tree, path) ==
    IF path \notin AllPaths THEN path
    ELSE IF tree[path].kind = "symlink" THEN tree[path].link
    ELSE IF \E top \in TopPaths : path = top \o Child /\ tree[top].kind = "symlink"
         THEN LET top == CHOOSE top \in TopPaths : path = top \o Child
              IN  tree[top].link \o Child
    ELSE path

NodeAt(tree, path) ==
    IF Follow(tree, path) \in AllPaths THEN tree[Follow(tree, path)] ELSE NoNode

UsedInodes(tree) == {tree[path].ino : path \in {q \in AllPaths : tree[q].kind = "file"}}

\* the inode a newly created file gets
FreshInode(tree) == CHOOSE ino \in Inodes \ UsedInodes(tree) :
                        \A other \in Inodes \ UsedInodes(tree) : ino <= other

\* os.RemoveAll(path): the entry and everything below it
RemoveTree(tree, path) ==
    [q \in AllPaths |-> IF IsPrefixOf(path, q) THEN NoNode ELSE tree[q]]

\* variant: the destination becomes another name of the source's inode
copyFile_Link(w, src, dst) ==
    [w EXCEPT !.tree[dst] = FileNode(NodeAt(w.tree, src).ino)]

\* copyFile(src, dst): a new file with the bytes of src
copyFile(w, src, dst) ==
    LET ino == FreshInode(w.tree)
    IN  [w EXCEPT !.tree[dst] = FileNode(ino),
                  !.data[ino] = w.data[NodeAt(w.tree, src).ino]]

\* copyDir(src, dst): the directory and, entry by entry, what it holds
copyDir(w, src, dst) ==
    LET made == [w EXCEPT !.tree[dst] = DirNode]
    IN  IF NodeAt(w.tree, src \o Child).kind = "file"
        THEN copyFile(made, src \o Child, dst \o Child)
        ELSE made

\* the step of handleFile a fault (an error of the operating system) hits
MountFaults == {"none", "mkdir", "remove", "symlink", "copy"}

\* handleFile(fm): the files afterwards and the error.  os.Stat of the source
\* fails when nothing is there or the path is a link that leads nowhere; the
\* copy fails when the source is gone by the time it is opened.
handleFile(w, fm, fault) ==
    LET source == fm.source
        target == Resolve(fm.target)
        sourceInfo == NodeAt(w.tree, source)
        exists == w.tree[target].kind # "none"
        cleared == IF exists THEN [w EXCEPT !.tree = RemoveTree(w.tree, target)] ELSE w
    IN  IF sourceInfo.kind \notin {"file", "dir"} THEN [ws |-> w, err |-> TRUE]
        ELSE IF fault = "mkdir" THEN [ws |-> w, err |-> TRUE]
        ELSE IF exists /\ fault = "remove" THEN [ws |-> w, err |-> TRUE]
        ELSE IF fm.readOnly
             THEN IF fault = "symlink" THEN [ws |-> cleared, err |-> TRUE]
                  ELSE [ws |-> [cleared EXCEPT !.tree[target] = LinkNode(source)],
                        err |-> FALSE]
        ELSE IF NodeAt(cleared.tree, source).kind \notin {"file", "dir"}
             THEN [ws |-> cleared, err |-> TRUE]
        ELSE IF sourceInfo.kind = "dir"
             THEN IF fault = "copy"
                  THEN [ws |-> [cleared EXCEPT !.tree[target] = DirNode], err |-> TRUE]
                  ELSE [ws |-> copyDir(cleared, source, target), err |-> FALSE]
        ELSE IF fault = "copy" THEN [ws |-> cleared, err |-> TRUE]
        ELSE [ws |-> copyFile(cleared, source, target), err |-> FALSE]

\* handleFiles(files): the mounts in list order, stopping at the first error
RECURSIVE handleFiles(_, _)
handleFiles(w, files) ==
    IF files = <<>> THEN [ws |-> w, err |-> FALSE]
    ELSE LET r == handleFile(w, Head(files), "none")
         IN  IF r.err THEN r ELSE handleFiles(r.ws, Tail(files))

----------------------------------------------------------------------------
(* Setup runner (setup.go: HostSetupRunner.Run) and Exec / Shell           *)

MaxCommands == 2

\* variable maps, mount lists and command counts a Run is given
SetupEnvs ==
    {<<>>,
     [k \in {"A"} |-> <<"a">>],
     [k \in {"A", "B"} |-> IF k = "A" THEN <<Quote, Space>> ELSE <<Dollar, "a">>]}

SetupFiles ==
    {<<>>,
     <<[source |-> SrcFile, target |-> RelTarget, readOnly |-> TRUE]>>,
     <<[source |-> SrcFile, target |-> RelTarget, readOnly |-> TRUE],
       [source |-> SrcMissing, target |-> AbsTarget, readOnly |-> FALSE]>>}

SetupConfigs == [Environment : SetupEnvs, Files : SetupFiles, SetupCommands : 0..MaxCommands]

NoSetupConfig == [Environment |-> <<>>, Files |-> <<>>, SetupCommands |-> 0]

\* entries of the log of a Run: a phase entered, a command started
Phase(name) == [kind |-> name, index |-> 0]
Command(i) == [kind |-> "command", index |-> i]

\* errors Run returns
SetupOK == [kind |-> "nil"]
ErrWorkDir == [kind |-> "workdir"]
ErrContext == [kind |-> "context"]
ErrEnvironment == [kind |-> "environment"]
ErrFiles == [kind |-> "files"]
ErrShell == [kind |-> "shell"]
ErrCommand(i) == [kind |-> "command", index |-> i]

WsInit ==
    [envfile   |-> NoFile,         \* <WorkDir>/.choir-env
     tree      |-> TreeInit,       \* directory entries
     data      |-> DataInit,       \* content of regular files, by inode
     cfg       |-> NoSetupConfig,  \* cfg of the Run in progress
     cancelled |-> FALSE,          \* ctx.Err() # nil
     idx       |-> 0,              \* loop index inside handleFiles / runCommands
     log       |-> <<>>,           \* phases entered and commands started, in order
     err       |-> SetupOK,        \* what Run returns
     written   |-> <<>>]           \* map the last Run wrote to the export artifact

\* what the command line that Exec and Shell hand to the shell does: run
\* tells whether the requested command (or the interactive shell) started,
\* env what the export artifact added to its environment
CommandLine(file, shell) ==
    IF file = NoFile THEN [run |-> TRUE, sourced |-> FALSE, env |-> <<>>]
    ELSE LET r == Source(file, shell)
         IN  [run |-> r.ok, sourced |-> r.ok, env |-> r.env]

\* Exec(backendID, command): exists tells whether os.Stat finds backendID
Exec(w, exists, shell) ==
    IF ~exists THEN [err |-> TRUE, run |-> FALSE, sourced |-> FALSE, env |-> <<>>, dir |-> <<>>]
    ELSE [err |-> FALSE, dir |-> WorkDir] @@ CommandLine(w.envfile, shell)

\* Shell(backendID): the same command line, ending in exec <shell>
Shell(w, exists, shell) ==
    IF ~exists THEN [err |-> TRUE, run |-> FALSE, sourced |-> FALSE, env |-> <<>>, dir |-> <<>>]
    ELSE [err |-> FALSE, dir |-> WorkDir] @@ CommandLine(w.envfile, shell)

----------------------------------------------------------------------------
(* Backend registry (internal/backend/registry.go)                         *)

BackendTypes == {"worktree", "lima"}
Factories == {"f1", "f2"}
NoFactory == "none"
NoProc == "none"

RegLocalInit == [type |-> "", factory |-> NoFactory, ok |-> FALSE, raced |-> FALSE]

\* variant: the exclusive lock is given whoever holds the mutex
CanLock_Always(mu) == TRUE

\* registryMu.Lock() returns when nobody holds the mutex
CanLock(mu) == mu.writer = NoProc /\ mu.readers = {}

\* registryMu.RLock() returns when no writer holds the mutex
CanRLock(mu) == mu.writer = NoProc

RegInit ==
    [registry   |-> [t \in BackendTypes |-> NoFactory],   \* the factory map
     writing    |-> NoProc,                               \* who is inside a map write
     registryMu |-> [writer |-> NoProc, readers |-> {}],  \* sync.RWMutex
     local      |-> [p \in Procs |-> RegLocalInit]]

----------------------------------------------------------------------------
(* Schema migrations (internal/state/migrations.go)                        *)

MaxMigrations == 2

\* version numbers of the migrations slice
Versions == 1..MaxMigrations

NoTx == [open |-> FALSE, schema |-> {}, versions |-> {}]

MigInit ==
    [table    |-> FALSE,    \* schema_migrations exists
     schema   |-> {},       \* migrations whose schema changes are committed
     versions |-> {},       \* versions recorded in schema_migrations
     writer   |-> NoProc,   \* connection holding the write lock of the file
     cur      |-> [p \in Procs |-> 0],      \* currentVersion of each Open
     next     |-> [p \in Procs |-> 0],      \* migration each Open is at
     applied  |-> [p \in Procs |-> 0],      \* migrations each Open has committed
     tx       |-> [p \in Procs |-> NoTx]]   \* each Open's transaction

\* SELECT COALESCE(MAX(version), 0) FROM schema_migrations
schemaVersion(m) ==
    IF m.versions = {} THEN 0
    ELSE CHOOSE v \in m.versions : \A other \in m.versions : other <= v

----------------------------------------------------------------------------
(* git configuration of the repository (user.name as the tests set it).    *)
(* The repository's own config file is shared by all working trees; with   *)
(* extensions.worktreeConfig each working tree has a config.worktree file. *)

MainTree == <<"main">>
Trees == IDs \cup {MainTree}

OriginalName == "orig"
AgentName == "agent"
NoValue == ""

GitConfigInit ==
    [extension |-> FALSE,
     local     |-> OriginalName,
     worktree  |-> [tree \in Trees |-> NoValue]]

\* the working trees of the repository besides the main one
LinkedTrees(f) == f.wtAdmin \cup {w.path : w \in f.foreign}

\* git config --get user.name run inside a working tree
ConfigGet(g, tree) ==
    IF g.extension /\ g.worktree[tree] # NoValue THEN g.worktree[tree] ELSE g.local

\* git config --worktree user.name <value> run inside a working tree: written
\* to the tree's config.worktree when the extension is enabled; refused when
\* it is not and the repository has linked working trees; otherwise written
\* to the repository's config file
ConfigSetWorktree(g, f, tree, value) ==
    IF g.extension THEN [cfg |-> [g EXCEPT !.worktree[tree] = value], err |-> FALSE]
    ELSE IF LinkedTrees(f) # {} THEN [cfg |-> g, err |-> TRUE]
    ELSE [cfg |-> [g EXCEPT !.local = value], err |-> FALSE]

----------------------------------------------------------------------------
(* Read calls on the registry (environment.go) and the locks SQLite takes  *)
(* on the database file for them                                           *)

NoCall == [op |-> "none", pc |-> "idle"]

ErrBusy == "database is locked"

\* sqlDB.SetMaxOpenConns(1) for the in-memory database; no limit (0) for a file
MaxOpenConns == {0, 1}

SqliteInit ==
    [maxOpen |-> 0,                        \* limit of the connection pool
     inUse   |-> {},                       \* callers holding a connection
     shared  |-> {},                       \* connections holding a SHARED lock
     writer  |-> NoProc,                   \* connection holding the write lock
     call    |-> [p \in Procs |-> NoCall]] \* the read call each caller is in

\* variant: a SHARED lock is refused while another connection holds one
CanShare_Alone(s) == s.writer = NoProc /\ s.shared = {}

\* a SHARED lock is granted unless a writer holds the file
CanShare(s) == s.writer = NoProc

\* GetEnvironment(id): SELECT ... WHERE id = ?
GetEnvironment(d, id) ==
    IF d[id] = NoRow THEN [err |-> ErrEnvironmentNotFound, envs |-> {}]
    ELSE [err |-> ErrNil, envs |-> {Env(d, id)}]

\* variant: the status filter is left out of the WHERE clause
CountEnvironments_NoStatusFilter(d, opts) ==
    Cardinality(Matches(d, [opts EXCEPT !.Statuses = {}]))

\* CountEnvironments(opts): SELECT COUNT(*) FROM environments with the
\* conditions the function collects itself, joined with AND
CountEnvironments(d, opts) ==
    Cardinality({id \in Stored(d) :
        /\ opts.RepoPath # "" => d[id].repo_path = opts.RepoPath
        /\ opts.Backend # "" => d[id].backend = opts.Backend
        /\ opts.Statuses # {} => d[id].status \in opts.Statuses})

\* the read calls and their arguments
ReadPrefixes == {<<"a">>, <<"b">>, <<"g">>}
ReadOptions == {ListOption("", "", {}), ListOption("", "", {StatusReady})}
ReadCalls ==
    {[op |-> "GetEnvironment", id |-> id, pc |-> "conn"] : id \in IDs}
    \cup {[op |-> "GetEnvironmentByPrefix", prefix |-> pre, pc |-> "conn"] : pre \in ReadPrefixes}
    \cup {[op |-> o, opts |-> opts, pc |-> "conn"] :
             o \in {"ListEnvironments", "CountEnvironments"}, opts \in ReadOptions}

\* what the query of call c returns on table d
ReadResults(d, c) ==
    IF c.op = "GetEnvironment" THEN {GetEnvironment(d, c.id)}
    ELSE IF c.op = "GetEnvironmentByPrefix" THEN {GetEnvironmentByPrefix(d, c.prefix)}
    ELSE IF c.op = "ListEnvironments"
    THEN {[err |-> ErrNil, list |-> envs] : envs \in ListEnvironments(d, c.opts)}
    ELSE {[err |-> ErrNil, count |-> CountEnvironments(d, c.opts)]}

----------------------------------------------------------------------------
(* Processes.  Every invocation of the CLI is a process of its own; a      *)
(* process that has returned may be invoked again.                         *)

\* backend types registered by the init functions (worktree.go: init)
BackendType == "worktree"
registry == {BackendType}

\* merged.Backend and the repository the commands run in
DefaultBackend == "local"
RepoRoot == "/repo"

LocInit ==
    [id         |-> <<>>,          \* envID (create) or env.ID (rm)
     status     |-> "",            \* env.Status
     backendID  |-> NoBackendID,   \* env.BackendID
     createdAt  |-> 0,             \* env.CreatedAt
     repoPath   |-> "",            \* cfg.Repository.Path
     setup      |-> FALSE,         \* !noSetupFlag && hasSetupWork
     inserted   |-> FALSE,         \* CreateEnvironment returned nil
     beCalled   |-> FALSE,         \* a backend operation was invoked
     preExists  |-> FALSE,         \* Create: os.Stat found the path
     added      |-> FALSE,         \* Create: git worktree add succeeded
     beErr      |-> FALSE,         \* Create returned an error
     cleanupErr |-> FALSE,         \* Create: the Destroy after a failed marker write failed
     setupErr   |-> FALSE,         \* runner.Run returned an error
     destroyErr |-> FALSE,         \* rm: Destroy returned an error
     err        |-> FALSE]         \* the command returned an error

\* record of the direct backend calls: the workspaces Create returned and
\* Destroy has not removed, and whether any of the calls returned an error
HistInit == [live |-> {}, failed |-> FALSE]

\* the Environment value a command holds
EnvOf(l) == Environment(l.id, l.status, l.backendID, DefaultBackend, RepoRoot, l.createdAt)

Init ==
    /\ db = [id \in IDs |-> NoRow]
    /\ fs = EmptyFS
    /\ cmd = [p \in Procs |-> "idle"]
    /\ pc = [p \in Procs |-> "idle"]
    /\ loc = [p \in Procs |-> LocInit]
    /\ ret = [op |-> "none"]
    /\ delLog = [id \in IDs |-> <<>>]
    /\ started = 0
    /\ used = {}
    /\ hist = HistInit
    /\ ws = WsInit
    /\ reg = RegInit
    /\ mig = MigInit
    /\ gitcfg = GitConfigInit
    /\ sqlite = SqliteInit

Goto(p, label) == pc' = [pc EXCEPT ![p] = label]

\* the command returns: err tells whether it returned an error
Return(p, l, err) ==
    /\ pc' = [pc EXCEPT ![p] = "done"]
    /\ loc' = [loc EXCEPT ![p] = [l EXCEPT !.err = err]]

----------------------------------------------------------------------------
(* env create (cmd/env/create.go: runCreate) *)

\* GenerateID, configuration loading, the provisional Environment value.
\* GenerateID reads 128 random bits: it returns an id not returned before
\* (the ids being interchangeable, the next one of IdSeq).
StartCreate(p) ==
    /\ cmd[p] = "idle"
    /\ started < MaxInvocations
    /\ Cardinality(used) < Len(IdSeq)
    /\ \E id \in {IdSeq[Cardinality(used) + 1]}, setup \in BOOLEAN :
          /\ loc' = [loc EXCEPT ![p] = [LocInit EXCEPT !.id = id,
                                                       !.createdAt = Cardinality(used),
                                                       !.repoPath = RepoRoot,
                                                       !.setup = setup,
                                                       !.status = StatusProvisioning]]
          /\ used' = used \cup {id}
    /\ cmd' = [cmd EXCEPT ![p] = "create"]
    /\ Goto(p, "cr_insert")
    /\ started' = started + 1
    /\ UNCHANGED <<db, fs, ret, delLog, hist, ws, reg, mig, gitcfg, sqlite>>

\* variant: the error of CreateEnvironment is ignored
CreateInsert_IgnoringError(p, Faults) ==
    /\ pc[p] = "cr_insert"
    /\ \E execFails \in Faults :
          LET l == loc[p]
              r == CreateEnvironment(db, EnvOf(l), execFails)
          IN  /\ db' = r.db
              /\ loc' = [loc EXCEPT ![p].inserted = (r.err = ErrNil)]
              /\ Goto(p, "cr_getbe")
    /\ UNCHANGED <<fs, cmd, ret, delLog, started, used, hist, ws, reg, mig, gitcfg, sqlite>>

\* db.CreateEnvironment(env)
CreateInsert(p, Faults) ==
    /\ pc[p] = "cr_insert"
    /\ \E execFails \in Faults :
          LET l == loc[p]
              r == CreateEnvironment(db, EnvOf(l), execFails)
          IN  /\ db' = r.db
              /\ IF r.err # ErrNil
                 THEN Return(p, l, TRUE)
                 ELSE /\ loc' = [loc EXCEPT ![p].inserted = TRUE]
                      /\ Goto(p, "cr_getbe")
    /\ UNCHANGED <<fs, cmd, ret, delLog, started, used, hist, ws, reg, mig, gitcfg, sqlite>>

\* backend.Get; on failure the record is deleted again
CreateGetBackend(p, Faults) ==
    /\ pc[p] = "cr_getbe"
    /\ \E execFails \in Faults :
          IF BackendType \in registry
          THEN /\ Goto(p, "c_stat")
               /\ UNCHANGED <<db, loc>>
          ELSE /\ db' = DeleteEnvironment(db, loc[p].id, execFails).db
               /\ Return(p, loc[p], TRUE)
    /\ UNCHANGED <<fs, cmd, ret, delLog, started, used, hist, ws, reg, mig, gitcfg, sqlite>>

(* Backend.Create (worktree.go), step by step *)

\* cfg has the id and the repository path Create requires
ValidRequest(l) == l.id # <<>> /\ l.repoPath # ""

\* variant: the request is not validated
CreateStat_NoValidation(p) ==
    /\ pc[p] = "c_stat"
    /\ IF PathExists(fs, WorktreePath(loc[p].id))
       THEN /\ loc' = [loc EXCEPT ![p].beCalled = TRUE, ![p].preExists = TRUE, ![p].beErr = TRUE]
            /\ Goto(p, "c_ret")
       ELSE /\ loc' = [loc EXCEPT ![p].beCalled = TRUE]
            /\ Goto(p, "c_add")
    /\ UNCHANGED <<db, fs, cmd, ret, delLog, started, used, hist, ws, reg, mig, gitcfg, sqlite>>

\* variant: the path is not looked up before git worktree add
CreateStat_NoExistenceCheck(p) ==
    /\ pc[p] = "c_stat"
    /\ IF ~ValidRequest(loc[p])
       THEN /\ loc' = [loc EXCEPT ![p].beCalled = TRUE, ![p].beErr = TRUE]
            /\ Goto(p, "c_ret")
       ELSE /\ loc' = [loc EXCEPT ![p].beCalled = TRUE]
            /\ Goto(p, "c_add")
    /\ UNCHANGED <<db, fs, cmd, ret, delLog, started, used, hist, ws, reg, mig, gitcfg, sqlite>>

\* the checks of the id and the repository path, then os.Stat(worktreePath):
\* fail fast when the path exists
CreateStat(p) ==
    /\ pc[p] = "c_stat"
    /\ IF ~ValidRequest(loc[p])
       THEN /\ loc' = [loc EXCEPT ![p].beCalled = TRUE, ![p].beErr = TRUE]
            /\ Goto(p, "c_ret")
       ELSE IF PathExists(fs, WorktreePath(loc[p].id))
       THEN /\ loc' = [loc EXCEPT ![p].beCalled = TRUE, ![p].preExists = TRUE, ![p].beErr = TRUE]
            /\ Goto(p, "c_ret")
       ELSE /\ loc' = [loc EXCEPT ![p].beCalled = TRUE]
            /\ Goto(p, "c_add")
    /\ UNCHANGED <<db, fs, cmd, ret, delLog, started, used, hist, ws, reg, mig, gitcfg, sqlite>>

\* variant: a failed git worktree add is followed by the cleanup Destroy
CreateAddWorktree_CleanupOnFailure(p) ==
    /\ pc[p] = "c_add"
    /\ \E gitOK \in BOOLEAN :
          IF gitOK /\ AddCanSucceed(fs, loc[p].id)
          THEN /\ fs' = GitWorktreeAdd(fs, loc[p].id)
               /\ loc' = [loc EXCEPT ![p].added = TRUE]
               /\ Goto(p, "c_marker")
          ELSE /\ Goto(p, "c_cleanup")
               /\ UNCHANGED <<fs, loc>>
    /\ UNCHANGED <<db, cmd, ret, delLog, started, used, hist, ws, reg, mig, gitcfg, sqlite>>

\* git worktree add -b <branch> <path> <base>
CreateAddWorktree(p) ==
    /\ pc[p] = "c_add"
    /\ \E gitOK \in BOOLEAN :
          IF gitOK /\ AddCanSucceed(fs, loc[p].id)
          THEN /\ fs' = GitWorktreeAdd(fs, loc[p].id)
               /\ loc' = [loc EXCEPT ![p].added = TRUE]
               /\ Goto(p, "c_marker")
          ELSE /\ loc' = [loc EXCEPT ![p].beErr = TRUE]
               /\ Goto(p, "c_ret")
               /\ UNCHANGED fs
    /\ UNCHANGED <<db, cmd, ret, delLog, started, used, hist, ws, reg, mig, gitcfg, sqlite>>

\* os.WriteFile(markerPath, ...)
CreateWriteMarker(p) ==
    /\ pc[p] = "c_marker"
    /\ \E writeOK \in BOOLEAN :
          IF writeOK /\ loc[p].id \in fs.dirs
          THEN /\ fs' = WriteMarker(fs, loc[p].id)
               /\ Goto(p, "c_ret")
               /\ UNCHANGED loc
          ELSE /\ Goto(p, "c_cleanup")
               /\ UNCHANGED <<fs, loc>>
    /\ UNCHANGED <<db, cmd, ret, delLog, started, used, hist, ws, reg, mig, gitcfg, sqlite>>

\* _ = b.Destroy(ctx, worktreePath); return the marker error
CreateCleanup(p) ==
    /\ pc[p] = "c_cleanup"
    /\ \E gitOK \in BOOLEAN, rmOK \in BOOLEAN, lost \in LostChoices :
          LET r == Destroy(fs, WorktreePath(loc[p].id), gitOK, rmOK, lost)
          IN  /\ fs' = r.fs
              /\ loc' = [loc EXCEPT ![p].beErr = TRUE, ![p].cleanupErr = r.err]
    /\ Goto(p, "c_ret")
    /\ UNCHANGED <<db, cmd, ret, delLog, started, used, hist, ws, reg, mig, gitcfg, sqlite>>

\* be.Create failed: mark the environment failed
CreateMarkFailed(p, Faults) ==
    /\ pc[p] = "c_ret" /\ cmd[p] = "create"
    /\ loc[p].beErr
    /\ \E execFails \in Faults :
          LET l == [loc[p] EXCEPT !.status = StatusFailed]
          IN  /\ db' = UpdateEnvironment(db, EnvOf(l), execFails).db
              /\ Return(p, l, TRUE)
    /\ UNCHANGED <<fs, cmd, ret, delLog, started, used, hist, ws, reg, mig, gitcfg, sqlite>>

\* be.Create succeeded: env.BackendID = backendID; db.UpdateEnvironment(env)
CreateRecordBackendID(p, Faults) ==
    /\ pc[p] = "c_ret" /\ cmd[p] = "create"
    /\ ~loc[p].beErr
    /\ \E execFails \in Faults :
          LET l == [loc[p] EXCEPT !.backendID = WorktreePath(loc[p].id)]
              r == UpdateEnvironment(db, EnvOf(l), execFails)
          IN  /\ db' = r.db
              /\ loc' = [loc EXCEPT ![p] = l]
              /\ IF r.err # ErrNil THEN Goto(p, "cr_undo_destroy")
                 ELSE IF l.setup THEN Goto(p, "cr_setup")
                 ELSE Goto(p, "cr_ready")
    /\ UNCHANGED <<fs, cmd, ret, delLog, started, used, hist, ws, reg, mig, gitcfg, sqlite>>

\* the update failed: _ = be.Destroy(ctx, backendID)
CreateUndoDestroy(p) ==
    /\ pc[p] = "cr_undo_destroy"
    /\ \E gitOK \in BOOLEAN, rmOK \in BOOLEAN, lost \in LostChoices :
          fs' = Destroy(fs, loc[p].backendID, gitOK, rmOK, lost).fs
    /\ Goto(p, "cr_undo_delete")
    /\ UNCHANGED <<db, cmd, loc, ret, delLog, started, used, hist, ws, reg, mig, gitcfg, sqlite>>

\* ... then _ = db.DeleteEnvironment(envID)
CreateUndoDelete(p, Faults) ==
    /\ pc[p] = "cr_undo_delete"
    /\ \E execFails \in Faults :
          db' = DeleteEnvironment(db, loc[p].id, execFails).db
    /\ Return(p, loc[p], TRUE)
    /\ UNCHANGED <<fs, cmd, ret, delLog, started, used, hist, ws, reg, mig, gitcfg, sqlite>>

\* variant: the error of runner.Run is ignored
CreateRunSetup_IgnoringError(p) ==
    /\ pc[p] = "cr_setup"
    /\ \E hasEnv \in BOOLEAN, runOK \in BOOLEAN :
          LET id == loc[p].id
              envWritten == hasEnv /\ id \in fs.dirs
              failed == ~runOK \/ (hasEnv /\ id \notin fs.dirs)
          IN  /\ fs' = IF envWritten THEN [fs EXCEPT !.envfiles = @ \cup {id}] ELSE fs
              /\ loc' = [loc EXCEPT ![p].setupErr = failed]
              /\ Goto(p, "cr_ready")
    /\ UNCHANGED <<db, cmd, ret, delLog, started, used, hist, ws, reg, mig, gitcfg, sqlite>>

\* runner.Run(ctx, setupCfg): writes the env file when the variable map is
\* not empty, then mounts files and runs the setup commands
CreateRunSetup(p) ==
    /\ pc[p] = "cr_setup"
    /\ \E hasEnv \in BOOLEAN, runOK \in BOOLEAN :
          LET id == loc[p].id
              envWritten == hasEnv /\ id \in fs.dirs
              failed == ~runOK \/ (hasEnv /\ id \notin fs.dirs)
          IN  /\ fs' = IF envWritten THEN [fs EXCEPT !.envfiles = @ \cup {id}] ELSE fs
              /\ loc' = [loc EXCEPT ![p].setupErr = failed]
              /\ IF failed THEN Goto(p, "cr_setup_failed") ELSE Goto(p, "cr_ready")
    /\ UNCHANGED <<db, cmd, ret, delLog, started, used, hist, ws, reg, mig, gitcfg, sqlite>>

\* setup failed: env.Status = StatusFailed; _ = db.UpdateEnvironment(env)
CreateSetupFailed(p, Faults) ==
    /\ pc[p] = "cr_setup_failed"
    /\ \E execFails \in Faults :
          LET l == [loc[p] EXCEPT !.status = StatusFailed]
          IN  /\ db' = UpdateEnvironment(db, EnvOf(l), execFails).db
              /\ Return(p, l, TRUE)
    /\ UNCHANGED <<fs, cmd, ret, delLog, started, used, hist, ws, reg, mig, gitcfg, sqlite>>

\* env.Status = StatusReady; db.UpdateEnvironment(env)
CreateReady(p, Faults) ==
    /\ pc[p] = "cr_ready"
    /\ \E execFails \in Faults :
          LET l == [loc[p] EXCEPT !.status = StatusReady]
              r == UpdateEnvironment(db, EnvOf(l), execFails)
          IN  /\ db' = r.db
              /\ Return(p, l, r.err # ErrNil)
    /\ UNCHANGED <<fs, cmd, ret, delLog, started, used, hist, ws, reg, mig, gitcfg, sqlite>>


----------------------------------------------------------------------------
(* env rm (cmd/env: runRm) *)

\* db.GetEnvironmentByPrefix(idPrefix), then the confirmation prompt for a
\* ready environment unless -f was given
StartRm(p) ==
    /\ cmd[p] = "idle"
    /\ started < MaxInvocations
    /\ started' = started + 1
    /\ cmd' = [cmd EXCEPT ![p] = "rm"]
    /\ \E prefix \in Prefixes, force \in BOOLEAN, yes \in BOOLEAN :
          LET r == GetEnvironmentByPrefix(db, prefix)
          IN  IF r.err # ErrNil
              THEN Return(p, LocInit, TRUE)
              ELSE LET env == CHOOSE e \in r.envs : TRUE
                       l == [LocInit EXCEPT !.id = env.id,
                                            !.createdAt = env.created_at,
                                            !.status = env.status,
                                            !.backendID = env.backend_id]
                   IN  IF env.status = StatusReady /\ ~force /\ ~yes
                       THEN Return(p, l, FALSE)
                       ELSE /\ loc' = [loc EXCEPT ![p] = l]
                            /\ Goto(p, "rm_destroy")
    /\ UNCHANGED <<db, fs, ret, delLog, used, hist, ws, reg, mig, gitcfg, sqlite>>

\* variant: a Destroy error makes rm return before the record is deleted
RmDestroy_AbortOnError(p) ==
    /\ pc[p] = "rm_destroy"
    /\ IF loc[p].backendID # NoBackendID
       THEN \E gitOK \in BOOLEAN, rmOK \in BOOLEAN, lost \in LostChoices :
               LET r == Destroy(fs, loc[p].backendID, gitOK, rmOK, lost)
               IN  /\ fs' = r.fs
                   /\ IF r.err
                      THEN Return(p, [loc[p] EXCEPT !.beCalled = TRUE, !.destroyErr = TRUE], TRUE)
                      ELSE /\ loc' = [loc EXCEPT ![p].beCalled = TRUE]
                           /\ Goto(p, "rm_delete")
       ELSE /\ UNCHANGED <<fs, loc>>
            /\ Goto(p, "rm_delete")
    /\ UNCHANGED <<db, cmd, ret, delLog, started, used, hist, ws, reg, mig, gitcfg, sqlite>>

\* if env.BackendID != "": be.Destroy(ctx, env.BackendID), a failure is a warning
RmDestroy(p) ==
    /\ pc[p] = "rm_destroy"
    /\ IF loc[p].backendID # NoBackendID
       THEN \E gitOK \in BOOLEAN, rmOK \in BOOLEAN, lost \in LostChoices :
               LET r == Destroy(fs, loc[p].backendID, gitOK, rmOK, lost)
               IN  /\ fs' = r.fs
                   /\ loc' = [loc EXCEPT ![p].beCalled = TRUE, ![p].destroyErr = r.err]
       ELSE UNCHANGED <<fs, loc>>
    /\ Goto(p, "rm_delete")
    /\ UNCHANGED <<db, cmd, ret, delLog, started, used, hist, ws, reg, mig, gitcfg, sqlite>>

\* db.DeleteEnvironment(env.ID)
RmDelete(p, Faults) ==
    /\ pc[p] = "rm_delete"
    /\ \E execFails \in Faults :
          LET r == DeleteEnvironment(db, loc[p].id, execFails)
          IN  /\ db' = r.db
              /\ Return(p, loc[p], r.err # ErrNil)
    /\ UNCHANGED <<fs, cmd, ret, delLog, started, used, hist, ws, reg, mig, gitcfg, sqlite>>

\* the process exits
Exit(p) ==
    /\ pc[p] = "done"
    /\ cmd' = [cmd EXCEPT ![p] = "idle"]
    /\ pc' = [pc EXCEPT ![p] = "idle"]
    /\ loc' = [loc EXCEPT ![p] = LocInit]
    /\ UNCHANGED <<db, fs, ret, delLog, started, used, hist, ws, reg, mig, gitcfg, sqlite>>

----------------------------------------------------------------------------
(* Direct calls of the registry methods (as the tests and any other caller *)
(* of internal/state make them); ret records what the call returned.       *)

BogusStatus == "bogus"
StatusArgs == ValidStatuses \cup {BogusStatus}
BackendIDArgs(id) == {NoBackendID, WorktreePath(id)}
\* CreatedAt of the Environment handed to UpdateEnvironment: the stored one
\* or a later time
CreatedAtArgs == {0, TicksPerSecond}

CallCreateEnvironment ==
    /\ \E id \in IDs, st \in StatusArgs : \E bid \in BackendIDArgs(id) :
          LET r == CreateEnvironment(db, Environment(id, st, bid, DefaultBackend, RepoRoot, 0),
                                     FALSE)
          IN  /\ db' = r.db
              /\ ret' = [op |-> "create", id |-> id, err |-> r.err]
              /\ delLog' = IF r.err = ErrNil THEN [delLog EXCEPT ![id] = <<"created">>]
                           ELSE delLog
    /\ UNCHANGED <<fs, cmd, pc, loc, started, used, hist, ws, reg, mig, gitcfg, sqlite>>

CallUpdateEnvironment ==
    /\ \E id \in IDs, st \in StatusArgs, t \in CreatedAtArgs : \E bid \in BackendIDArgs(id) :
          LET r == UpdateEnvironment(db, Environment(id, st, bid, DefaultBackend, RepoRoot, t),
                                     FALSE)
          IN  /\ db' = r.db
              /\ ret' = [op |-> "update", id |-> id, err |-> r.err]
    /\ UNCHANGED <<fs, cmd, pc, loc, delLog, started, used, hist, ws, reg, mig, gitcfg, sqlite>>

CallDeleteEnvironment ==
    /\ \E id \in IDs :
          /\ Len(delLog[id]) < MaxDelLog
          /\ LET r == DeleteEnvironment(db, id, FALSE)
             IN  /\ db' = r.db
                 /\ ret' = [op |-> "delete", id |-> id, err |-> r.err]
                 /\ delLog' = IF delLog[id] # <<>>
                              THEN [delLog EXCEPT ![id] = Append(@, r.err)]
                              ELSE delLog
    /\ UNCHANGED <<fs, cmd, pc, loc, started, used, hist, ws, reg, mig, gitcfg, sqlite>>

CallGetEnvironmentByPrefix ==
    /\ \E prefix \in Prefixes :
          LET r == GetEnvironmentByPrefix(db, prefix)
          IN  ret' = [op |-> "getByPrefix", prefix |-> prefix, err |-> r.err, envs |-> r.envs]
    /\ UNCHANGED <<db, fs, cmd, pc, loc, delLog, started, used, hist, ws, reg, mig, gitcfg, sqlite>>

(* ListEnvironments on any table *)

ListStatuses == {StatusReady, StatusRemoved}
Backends == {DefaultBackend, "lima"}
Repos == {RepoRoot, "/other"}

ListRows ==
    [status : ListStatuses, backend_id : {NoBackendID}, backend : Backends,
     repo_path : Repos, created_at : 0..MaxSeconds]

ListOptions ==
    {ListOption(r, b, sts) : r \in {""} \cup Repos, b \in {""} \cup Backends,
                             sts \in SUBSET ListStatuses}

\* a table holding any rows earlier calls may have stored
InitList ==
    /\ db \in [IDs -> ListRows \cup {NoRow}]
    /\ fs = EmptyFS
    /\ cmd = [p \in Procs |-> "idle"]
    /\ pc = [p \in Procs |-> "idle"]
    /\ loc = [p \in Procs |-> LocInit]
    /\ ret = [op |-> "none"]
    /\ delLog = [id \in IDs |-> <<>>]
    /\ started = 0
    /\ used = {}
    /\ hist = HistInit
    /\ ws = WsInit
    /\ reg = RegInit
    /\ mig = MigInit
    /\ gitcfg = GitConfigInit
    /\ sqlite = SqliteInit

\* one listing per table: a listing leaves the table as it is
CallListEnvironments ==
    /\ ret.op = "none"
    /\ \E opts \in ListOptions : \E envs \in ListEnvironments(db, opts) :
          ret' = [op |-> "list", opts |-> opts, err |-> ErrNil, envs |-> envs]
    /\ UNCHANGED <<db, fs, cmd, pc, loc, delLog, started, used, hist, ws, reg, mig, gitcfg, sqlite>>

----------------------------------------------------------------------------
(* Direct calls of the backend methods by one caller, one call at a time   *)
(* (as the backend tests and the conformance suite make them).             *)

Caller == "p1"

\* ids the caller works with
BackendIDs == {IdSeq[1], IdSeq[2]}

\* requests: any id or none, the repository path or none
CreateIDs == BackendIDs \cup {<<>>}
CreateRepoPaths == {RepoRoot, ""}

\* b.Create(ctx, cfg)
CallCreate ==
    /\ cmd[Caller] = "idle"
    /\ \E id \in CreateIDs, repoPath \in CreateRepoPaths :
          /\ loc' = [loc EXCEPT ![Caller] = [LocInit EXCEPT !.id = id, !.repoPath = repoPath]]
          /\ ret' = [op |-> "Create", id |-> id]
    /\ cmd' = [cmd EXCEPT ![Caller] = "Create"]
    /\ Goto(Caller, "c_stat")
    /\ UNCHANGED <<db, fs, delLog, started, used, hist, ws, reg, mig, gitcfg, sqlite>>

\* Create has returned to the caller
CallCreateReturn ==
    /\ cmd[Caller] = "Create" /\ pc[Caller] = "c_ret"
    /\ cmd' = [cmd EXCEPT ![Caller] = "idle"]
    /\ Goto(Caller, "idle")
    /\ loc' = [loc EXCEPT ![Caller] = LocInit]
    /\ ret' = [op |-> "Created", id |-> loc[Caller].id, err |-> loc[Caller].beErr]
    /\ hist' = IF loc[Caller].beErr THEN [hist EXCEPT !.failed = TRUE]
               ELSE [hist EXCEPT !.live = @ \cup {loc[Caller].id}]
    /\ UNCHANGED <<db, fs, delLog, started, used, ws, reg, mig, gitcfg, sqlite>>

\* b.Destroy(ctx, backendID)
CallDestroy ==
    /\ cmd[Caller] = "idle"
    /\ \E id \in BackendIDs, gitOK \in BOOLEAN, rmOK \in BOOLEAN, lost \in LostChoices :
          LET r == Destroy(fs, WorktreePath(id), gitOK, rmOK, lost)
          IN  /\ fs' = r.fs
              /\ ret' = [op |-> "Destroy", path |-> WorktreePath(id), err |-> r.err,
                         managed |-> id \in hist.live]
              /\ hist' = IF r.err THEN [hist EXCEPT !.failed = TRUE]
                         ELSE [hist EXCEPT !.live = @ \ {id}]
    /\ UNCHANGED <<db, cmd, pc, loc, delLog, started, used, ws, reg, mig, gitcfg, sqlite>>

\* paths handed to Status, Start and Stop
OtherPath == <<"other-", <<"a", "a">>>>
BackendPaths == {WorktreePath(id) : id \in BackendIDs} \cup {OtherPath}

\* b.Status(ctx, backendID)
CallStatus ==
    /\ cmd[Caller] = "idle"
    /\ \E path \in BackendPaths, fault \in StatFaults :
          ret' = [op |-> "Status", path |-> path, fault |-> fault,
                  state |-> Status(fs, path, fault)]
    /\ UNCHANGED <<db, fs, cmd, pc, loc, delLog, started, used, hist, ws, reg, mig, gitcfg, sqlite>>

\* b.Start(ctx, backendID)
CallStart ==
    /\ cmd[Caller] = "idle"
    /\ \E path \in BackendPaths, fault \in StatFaults :
          LET r == Start(fs, path, fault)
          IN  /\ fs' = r.fs
              /\ ret' = [op |-> "Start", path |-> path, fault |-> fault, err |-> r.err]
    /\ UNCHANGED <<db, cmd, pc, loc, delLog, started, used, hist, ws, reg, mig, gitcfg, sqlite>>

\* b.Stop(ctx, backendID)
CallStop ==
    /\ cmd[Caller] = "idle"
    /\ \E path \in BackendPaths, fault \in StatFaults :
          LET r == Stop(fs, path, fault)
          IN  /\ fs' = r.fs
              /\ ret' = [op |-> "Stop", path |-> path, fault |-> fault, err |-> r.err]
    /\ UNCHANGED <<db, cmd, pc, loc, delLog, started, used, hist, ws, reg, mig, gitcfg, sqlite>>

\* b.List(ctx)
CallList ==
    /\ cmd[Caller] = "idle"
    /\ \E gitOK \in BOOLEAN :
          LET r == List(fs, gitOK)
          IN  ret' = [op |-> "List", err |-> r.err, paths |-> r.paths]
    /\ UNCHANGED <<db, fs, cmd, pc, loc, delLog, started, used, hist, ws, reg, mig, gitcfg, sqlite>>

(* What the user does in the repository between two backend calls *)

\* git worktree add <path> by hand: at a path with the managed prefix (no
\* marker is written), or at another path, with or without a marker file
UserWorktreeAdd ==
    /\ cmd[Caller] = "idle"
    /\ \/ \E id \in BackendIDs :
             /\ ~PathExists(fs, WorktreePath(id)) /\ id \notin fs.wtAdmin
             /\ fs' = [fs EXCEPT !.dirs = @ \cup {id}, !.wtAdmin = @ \cup {id}]
       \/ \E marker \in BOOLEAN :
             /\ ~PathExists(fs, OtherPath)
             /\ fs' = [fs EXCEPT !.foreign = @ \cup {[path |-> OtherPath, marker |-> marker]}]
    /\ ret' = [op |-> "user"]
    /\ UNCHANGED <<db, cmd, pc, loc, delLog, started, used, hist, ws, reg, mig, gitcfg, sqlite>>

\* a regular file written at a managed path
UserCreateFile ==
    /\ cmd[Caller] = "idle"
    /\ \E id \in BackendIDs :
          /\ ~PathExists(fs, WorktreePath(id)) /\ id \notin fs.wtAdmin
          /\ fs' = [fs EXCEPT !.files = @ \cup {id}]
    /\ ret' = [op |-> "user"]
    /\ UNCHANGED <<db, cmd, pc, loc, delLog, started, used, hist, ws, reg, mig, gitcfg, sqlite>>

----------------------------------------------------------------------------
(* Specifications *)

NoFaults == {FALSE}
ExecFaults == BOOLEAN

Flow(p, Faults) ==
    \/ StartCreate(p)
    \/ CreateInsert(p, Faults)
    \/ CreateGetBackend(p, Faults)
    \/ CreateStat(p)
    \/ CreateAddWorktree(p)
    \/ CreateWriteMarker(p)
    \/ CreateCleanup(p)
    \/ CreateMarkFailed(p, Faults)
    \/ CreateRecordBackendID(p, Faults)
    \/ CreateUndoDestroy(p)
    \/ CreateUndoDelete(p, Faults)
    \/ CreateRunSetup(p)
    \/ CreateSetupFailed(p, Faults)
    \/ CreateReady(p, Faults)
    \/ StartRm(p)
    \/ RmDestroy(p)
    \/ RmDelete(p, Faults)
    \/ Exit(p)

\* the commands, every database statement executing
Next == \E p \in Procs : Flow(p, NoFaults)
Spec == Init /\ [][Next]_vars

\* the commands, a write statement possibly failing in db.Exec
NextFault == \E p \in Procs : Flow(p, ExecFaults)
SpecFault == Init /\ [][NextFault]_vars

\* direct callers of the registry
NextRegistry ==
    \/ CallCreateEnvironment
    \/ CallUpdateEnvironment
    \/ CallDeleteEnvironment
    \/ CallGetEnvironmentByPrefix
SpecRegistry == Init /\ [][NextRegistry]_vars

\* direct, sequential callers of the backend
NextBackend ==
    \/ CallCreate
    \/ CreateStat(Caller)
    \/ CreateAddWorktree(Caller)
    \/ CreateWriteMarker(Caller)
    \/ CreateCleanup(Caller)
    \/ CallCreateReturn
    \/ CallDestroy
    \/ CallStatus
    \/ CallStart
    \/ CallStop
    \/ CallList
    \/ UserWorktreeAdd
    \/ UserCreateFile
SpecBackend == Init /\ [][NextBackend]_vars


\* listing calls on any table
NextList == CallListEnvironments
SpecList == InitList /\ [][NextList]_vars

----------------------------------------------------------------------------
(* The export artifact written for any variable map and sourced again      *)

InitEnvFile ==
    /\ db = [id \in IDs |-> NoRow]
    /\ fs = EmptyFS
    /\ cmd = [p \in Procs |-> "idle"]
    /\ pc = [p \in Procs |-> "idle"]
    /\ loc = [p \in Procs |-> LocInit]
    /\ ret = [op |-> "none"]
    /\ delLog = [id \in IDs |-> <<>>]
    /\ started = 0
    /\ used = {}
    /\ hist = HistInit
    /\ ws \in {[WsInit EXCEPT !.cfg.Environment = env] : env \in EnvMaps}
    /\ reg = RegInit
    /\ mig = MigInit
    /\ gitcfg = GitConfigInit
    /\ sqlite = SqliteInit

\* r.writeEnvironment(env), then "source <WorkDir>/.choir-env" in a shell
\* that has the builtin
WriteAndSource ==
    /\ ret.op = "none"
    /\ \E createOK \in BOOLEAN :
          LET w == writeEnvironment(ws.envfile, ws.cfg.Environment, createOK)
          IN  /\ ws' = [ws EXCEPT !.envfile = w.file]
              /\ ret' = [op |-> "source", err |-> w.err,
                         env |-> CommandLine(w.file, "bash").env,
                         ok |-> CommandLine(w.file, "bash").run]
    /\ UNCHANGED <<db, fs, cmd, pc, loc, delLog, started, used, hist, reg, mig, gitcfg, sqlite>>

NextEnvFile == WriteAndSource
SpecEnvFile == InitEnvFile /\ [][NextEnvFile]_vars

----------------------------------------------------------------------------
(* One caller running the setup runner and Exec / Shell on one workspace,  *)
(* its context being cancelled at any moment                                *)

Running == cmd[Caller] = "Run"

\* Run returns err
RunReturn(w, err) == [w EXCEPT !.err = err]

\* runner.Run(ctx, cfg): the work directory check and the first ctx.Err()
CallRun ==
    /\ cmd[Caller] = "idle"
    /\ \E cfg \in SetupConfigs, workDir \in {WorkDir, <<>>}, cancelled \in BOOLEAN :
          /\ ws' = [ws EXCEPT !.cfg = cfg, !.cancelled = cancelled, !.idx = 0,
                              !.log = <<>>,
                              !.err = IF workDir = <<>> THEN ErrWorkDir
                                      ELSE IF cancelled THEN ErrContext ELSE SetupOK]
          /\ Goto(Caller, IF workDir = <<>> \/ cancelled THEN "r_ret" ELSE "r_env")
    /\ cmd' = [cmd EXCEPT ![Caller] = "Run"]
    /\ ret' = [op |-> "Run"]
    /\ UNCHANGED <<db, fs, loc, delLog, started, used, hist, reg, mig, gitcfg, sqlite>>

\* the context is cancelled while Run is under way
CancelContext ==
    /\ Running /\ pc[Caller] # "r_ret" /\ ~ws.cancelled
    /\ ws' = [ws EXCEPT !.cancelled = TRUE]
    /\ UNCHANGED <<db, fs, cmd, pc, loc, ret, delLog, started, used, hist, reg, mig, gitcfg, sqlite>>

\* variant: Step 2 is entered without looking at the context
RunFilesCheck_NoCheck ==
    /\ Running /\ pc[Caller] = "r_files"
    /\ ws' = [ws EXCEPT !.log = Append(@, Phase("files")), !.idx = 1]
    /\ Goto(Caller, IF ws.cfg.Files = <<>> THEN "r_cmds" ELSE "r_file")
    /\ UNCHANGED <<db, fs, cmd, loc, ret, delLog, started, used, hist, reg, mig, gitcfg, sqlite>>

\* Step 1: r.writeEnvironment(cfg.Environment)
RunWriteEnvironment ==
    /\ Running /\ pc[Caller] = "r_env"
    /\ \E createOK \in BOOLEAN :
          LET w == writeEnvironment(ws.envfile, ws.cfg.Environment, createOK)
          IN  /\ ws' = [ws EXCEPT !.envfile = w.file,
                                  !.written = IF w.file = ws.envfile THEN @
                                              ELSE ws.cfg.Environment,
                                  !.log = Append(@, Phase("environment")),
                                  !.err = IF w.err THEN ErrEnvironment ELSE SetupOK]
              /\ Goto(Caller, IF w.err THEN "r_ret" ELSE "r_files")
    /\ UNCHANGED <<db, fs, cmd, loc, ret, delLog, started, used, hist, reg, mig, gitcfg, sqlite>>

\* ctx.Err() before Step 2, and r.handleFiles(cfg.Files) entered
RunFilesCheck ==
    /\ Running /\ pc[Caller] = "r_files"
    /\ IF ws.cancelled
       THEN /\ ws' = RunReturn(ws, ErrContext)
            /\ Goto(Caller, "r_ret")
       ELSE /\ ws' = [ws EXCEPT !.log = Append(@, Phase("files")), !.idx = 1]
            /\ Goto(Caller, IF ws.cfg.Files = <<>> THEN "r_cmds" ELSE "r_file")
    /\ UNCHANGED <<db, fs, cmd, loc, ret, delLog, started, used, hist, reg, mig, gitcfg, sqlite>>

\* one turn of the loop of handleFiles
RunHandleFile ==
    /\ Running /\ pc[Caller] = "r_file"
    /\ \E fault \in MountFaults :
          LET fm == ws.cfg.Files[ws.idx]
              r == handleFile(ws, fm, fault)
              last == ws.idx = Len(ws.cfg.Files)
          IN  /\ ws' = [r.ws EXCEPT !.idx = IF r.err THEN @ ELSE @ + 1,
                                    !.err = IF r.err THEN ErrFiles ELSE SetupOK]
              /\ Goto(Caller, IF r.err THEN "r_ret" ELSE IF last THEN "r_cmds" ELSE "r_file")
    /\ UNCHANGED <<db, fs, cmd, loc, ret, delLog, started, used, hist, reg, mig, gitcfg, sqlite>>

\* ctx.Err() before Step 3, and the head of runCommands: shellOK tells
\* whether validShell finds a shell
RunCommandsCheck ==
    /\ Running /\ pc[Caller] = "r_cmds"
    /\ IF ws.cancelled
       THEN /\ ws' = RunReturn(ws, ErrContext)
            /\ Goto(Caller, "r_ret")
       ELSE \E shellOK \in BOOLEAN :
               /\ ws' = [ws EXCEPT !.log = Append(@, Phase("commands")), !.idx = 1,
                                   !.err = IF ws.cfg.SetupCommands > 0 /\ ~shellOK
                                           THEN ErrShell ELSE SetupOK]
               /\ Goto(Caller, IF ws.cfg.SetupCommands = 0 \/ ~shellOK
                               THEN "r_ret" ELSE "r_cmd")
    /\ UNCHANGED <<db, fs, cmd, loc, ret, delLog, started, used, hist, reg, mig, gitcfg, sqlite>>

\* variant: a failing command does not end the loop
RunCommand_KeepGoing ==
    /\ Running /\ pc[Caller] = "r_cmd"
    /\ IF ws.cancelled
       THEN /\ ws' = RunReturn(ws, ErrContext)
            /\ Goto(Caller, "r_ret")
       ELSE \E exitOK \in BOOLEAN :
               LET last == ws.idx = ws.cfg.SetupCommands
               IN  /\ ws' = [ws EXCEPT !.log = Append(@, Command(ws.idx)),
                                       !.idx = @ + 1,
                                       !.err = IF exitOK THEN @ ELSE ErrCommand(ws.idx)]
                   /\ Goto(Caller, IF last THEN "r_ret" ELSE "r_cmd")
    /\ UNCHANGED <<db, fs, cmd, loc, ret, delLog, started, used, hist, reg, mig, gitcfg, sqlite>>

\* one turn of the loop of runCommands: ctx.Err(), then the command
RunCommand ==
    /\ Running /\ pc[Caller] = "r_cmd"
    /\ IF ws.cancelled
       THEN /\ ws' = RunReturn(ws, ErrContext)
            /\ Goto(Caller, "r_ret")
       ELSE \E exitOK \in BOOLEAN :
               LET last == ws.idx = ws.cfg.SetupCommands
               IN  /\ ws' = [ws EXCEPT !.log = Append(@, Command(ws.idx)),
                                       !.idx = IF exitOK THEN @ + 1 ELSE @,
                                       !.err = IF exitOK THEN SetupOK ELSE ErrCommand(ws.idx)]
                   /\ Goto(Caller, IF ~exitOK \/ last THEN "r_ret" ELSE "r_cmd")
    /\ UNCHANGED <<db, fs, cmd, loc, ret, delLog, started, used, hist, reg, mig, gitcfg, sqlite>>

\* Run has returned to the caller
CallRunReturn ==
    /\ Running /\ pc[Caller] = "r_ret"
    /\ cmd' = [cmd EXCEPT ![Caller] = "idle"]
    /\ Goto(Caller, "idle")
    /\ ret' = [op |-> "Ran", err |-> ws.err]
    /\ ws' = [ws EXCEPT !.cfg = NoSetupConfig, !.cancelled = FALSE, !.idx = 0,
                        !.log = <<>>, !.err = SetupOK]
    /\ UNCHANGED <<db, fs, loc, delLog, started, used, hist, reg, mig, gitcfg, sqlite>>

\* b.Exec(ctx, backendID, command)
CallExec ==
    /\ cmd[Caller] = "idle"
    /\ \E exists \in BOOLEAN, shell \in Shells :
          ret' = [op |-> "Exec", shell |-> shell] @@ Exec(ws, exists, shell)
    /\ UNCHANGED <<db, fs, cmd, pc, loc, delLog, started, used, hist, ws, reg, mig, gitcfg, sqlite>>

\* b.Shell(ctx, backendID)
CallShell ==
    /\ cmd[Caller] = "idle"
    /\ \E exists \in BOOLEAN, shell \in Shells :
          ret' = [op |-> "Shell", shell |-> shell] @@ Shell(ws, exists, shell)
    /\ UNCHANGED <<db, fs, cmd, pc, loc, delLog, started, used, hist, ws, reg, mig, gitcfg, sqlite>>

NextSetup ==
    \/ CallRun
    \/ CancelContext
    \/ RunWriteEnvironment
    \/ RunFilesCheck
    \/ RunHandleFile
    \/ RunCommandsCheck
    \/ RunCommand
    \/ CallRunReturn
    \/ CallExec
    \/ CallShell

SpecSetup == Init /\ [][NextSetup]_vars

----------------------------------------------------------------------------
(* File mounts made one at a time, and the user working on the targets     *)

\* r.handleFile(fm)
CallHandleFile ==
    /\ cmd[Caller] = "idle"
    /\ \E fm \in FileMounts, fault \in MountFaults :
          LET r == handleFile(ws, fm, fault)
          IN  /\ ws' = r.ws
              /\ ret' = [op |-> "mount", fm |-> fm, err |-> r.err]
    /\ UNCHANGED <<db, fs, cmd, pc, loc, delLog, started, used, hist, reg, mig, gitcfg, sqlite>>

\* places a target may be at
TargetPaths == {Resolve(t) : t \in Targets} \cup Targets

\* the user overwrites a file at a target, or the file inside a target
UserWrite ==
    /\ cmd[Caller] = "idle"
    /\ \E top \in TargetPaths : \E path \in {top, top \o Child} :
          /\ NodeAt(ws.tree, path).kind = "file"
          /\ ws' = [ws EXCEPT !.data[NodeAt(ws.tree, path).ino] = EditedData]
          /\ ret' = [op |-> "write", top |-> top, path |-> path]
    /\ UNCHANGED <<db, fs, cmd, pc, loc, delLog, started, used, hist, reg, mig, gitcfg, sqlite>>

\* the user deletes a target
UserRemove ==
    /\ cmd[Caller] = "idle"
    /\ \E top \in TargetPaths :
          /\ ws.tree[top].kind # "none"
          /\ ws' = [ws EXCEPT !.tree = RemoveTree(ws.tree, top)]
          /\ ret' = [op |-> "remove", top |-> top, path |-> top]
    /\ UNCHANGED <<db, fs, cmd, pc, loc, delLog, started, used, hist, reg, mig, gitcfg, sqlite>>

NextMounts ==
    \/ CallHandleFile
    \/ UserWrite
    \/ UserRemove

SpecMounts == Init /\ [][NextMounts]_vars

----------------------------------------------------------------------------
(* Backend registry: Register, Get and RegisteredTypes called from         *)
(* concurrent goroutines                                                   *)

RegIdle(p) == [reg EXCEPT !.local[p] = RegLocalInit]

\* backend.Register(backendType, factory)
CallRegister(p) ==
    /\ cmd[p] = "idle"
    /\ \E t \in BackendTypes, f \in Factories :
          reg' = [reg EXCEPT !.local[p] = [RegLocalInit EXCEPT !.type = t, !.factory = f]]
    /\ cmd' = [cmd EXCEPT ![p] = "Register"]
    /\ Goto(p, "reg_lock")
    /\ UNCHANGED <<db, fs, loc, ret, delLog, started, used, hist, ws, mig, gitcfg, sqlite>>

\* registryMu.Lock()
RegisterLock(p) ==
    /\ cmd[p] = "Register" /\ pc[p] = "reg_lock"
    /\ CanLock(reg.registryMu)
    /\ reg' = [reg EXCEPT !.registryMu.writer = p]
    /\ Goto(p, "reg_check")
    /\ UNCHANGED <<db, fs, cmd, loc, ret, delLog, started, used, hist, ws, mig, gitcfg, sqlite>>

\* variant: the type is stored without looking for an earlier registration
RegisterCheck_NoCheck(p) ==
    /\ cmd[p] = "Register" /\ pc[p] = "reg_check"
    /\ reg' = [reg EXCEPT !.writing = p,
                          !.local[p].raced = reg.writing # NoProc]
    /\ Goto(p, "reg_store")
    /\ UNCHANGED <<db, fs, cmd, loc, ret, delLog, started, used, hist, ws, mig, gitcfg, sqlite>>

\* the lookup under the lock: panic (the deferred Unlock runs) when the type
\* is there, otherwise the map assignment begins
RegisterCheck(p) ==
    /\ cmd[p] = "Register" /\ pc[p] = "reg_check"
    /\ IF reg.registry[reg.local[p].type] # NoFactory
       THEN /\ reg' = [RegIdle(p) EXCEPT !.registryMu.writer = NoProc]
            /\ ret' = [op |-> "Register", by |-> p, type |-> reg.local[p].type,
                       factory |-> reg.local[p].factory, panicked |-> TRUE]
            /\ cmd' = [cmd EXCEPT ![p] = "idle"]
            /\ Goto(p, "idle")
       ELSE /\ reg' = [reg EXCEPT !.writing = p,
                                  !.local[p].raced = reg.writing # NoProc]
            /\ Goto(p, "reg_store")
            /\ UNCHANGED <<cmd, ret>>
    /\ UNCHANGED <<db, fs, loc, delLog, started, used, hist, ws, mig, gitcfg, sqlite>>

\* the map assignment ends, the deferred Unlock runs, Register returns
RegisterStore(p) ==
    /\ cmd[p] = "Register" /\ pc[p] = "reg_store"
    /\ reg' = [RegIdle(p) EXCEPT !.registry[reg.local[p].type] = reg.local[p].factory,
                                 !.writing = NoProc,
                                 !.registryMu.writer = NoProc]
    /\ ret' = [op |-> "Register", by |-> p, type |-> reg.local[p].type,
               factory |-> reg.local[p].factory, panicked |-> FALSE]
    /\ cmd' = [cmd EXCEPT ![p] = "idle"]
    /\ Goto(p, "idle")
    /\ UNCHANGED <<db, fs, loc, delLog, started, used, hist, ws, mig, gitcfg, sqlite>>

\* backend.Get(cfg)
CallGet(p) ==
    /\ cmd[p] = "idle"
    /\ \E t \in BackendTypes :
          reg' = [reg EXCEPT !.local[p] = [RegLocalInit EXCEPT !.type = t]]
    /\ cmd' = [cmd EXCEPT ![p] = "Get"]
    /\ Goto(p, "get_rlock")
    /\ UNCHANGED <<db, fs, loc, ret, delLog, started, used, hist, ws, mig, gitcfg, sqlite>>

\* registryMu.RLock()
GetRLock(p) ==
    /\ cmd[p] = "Get" /\ pc[p] = "get_rlock"
    /\ CanRLock(reg.registryMu)
    /\ reg' = [reg EXCEPT !.registryMu.readers = @ \cup {p}]
    /\ Goto(p, "get_lookup")
    /\ UNCHANGED <<db, fs, cmd, loc, ret, delLog, started, used, hist, ws, mig, gitcfg, sqlite>>

\* factory, ok := registry[cfg.Type]; registryMu.RUnlock().  A read while
\* another goroutine is inside a map write is a data race.
GetLookup(p) ==
    /\ cmd[p] = "Get" /\ pc[p] = "get_lookup"
    /\ reg' = [reg EXCEPT !.local[p].factory = reg.registry[reg.local[p].type],
                          !.local[p].ok = reg.registry[reg.local[p].type] # NoFactory,
                          !.local[p].raced = reg.writing # NoProc,
                          !.registryMu.readers = @ \ {p}]
    /\ Goto(p, "get_build")
    /\ UNCHANGED <<db, fs, cmd, loc, ret, delLog, started, used, hist, ws, mig, gitcfg, sqlite>>

\* the unknown-type error, or factory(cfg)
GetReturn(p) ==
    /\ cmd[p] = "Get" /\ pc[p] = "get_build"
    /\ ret' = [op |-> "Get", by |-> p, type |-> reg.local[p].type,
               err |-> ~reg.local[p].ok, builtBy |-> reg.local[p].factory,
               raced |-> reg.local[p].raced]
    /\ reg' = RegIdle(p)
    /\ cmd' = [cmd EXCEPT ![p] = "idle"]
    /\ Goto(p, "idle")
    /\ UNCHANGED <<db, fs, loc, delLog, started, used, hist, ws, mig, gitcfg, sqlite>>

\* backend.RegisteredTypes()
CallRegisteredTypes(p) ==
    /\ cmd[p] = "idle"
    /\ cmd' = [cmd EXCEPT ![p] = "RegisteredTypes"]
    /\ Goto(p, "types_rlock")
    /\ UNCHANGED <<db, fs, loc, ret, delLog, started, used, hist, ws, reg, mig, gitcfg, sqlite>>

\* registryMu.RLock()
TypesRLock(p) ==
    /\ cmd[p] = "RegisteredTypes" /\ pc[p] = "types_rlock"
    /\ CanRLock(reg.registryMu)
    /\ reg' = [reg EXCEPT !.registryMu.readers = @ \cup {p}]
    /\ Goto(p, "types_read")
    /\ UNCHANGED <<db, fs, cmd, loc, ret, delLog, started, used, hist, ws, mig, gitcfg, sqlite>>

\* the loop over the map, the deferred RUnlock, the return
TypesRead(p) ==
    /\ cmd[p] = "RegisteredTypes" /\ pc[p] = "types_read"
    /\ ret' = [op |-> "RegisteredTypes", by |-> p,
               types |-> {t \in BackendTypes : reg.registry[t] # NoFactory},
               raced |-> reg.writing # NoProc]
    /\ reg' = [reg EXCEPT !.registryMu.readers = @ \ {p}]
    /\ cmd' = [cmd EXCEPT ![p] = "idle"]
    /\ Goto(p, "idle")
    /\ UNCHANGED <<db, fs, loc, delLog, started, used, hist, ws, mig, gitcfg, sqlite>>

NextBackendRegistry ==
    \E p \in Procs :
        \/ CallRegister(p)
        \/ RegisterLock(p)
        \/ RegisterCheck(p)
        \/ RegisterStore(p)
        \/ CallGet(p)
        \/ GetRLock(p)
        \/ GetLookup(p)
        \/ GetReturn(p)
        \/ CallRegisteredTypes(p)
        \/ TypesRLock(p)
        \/ TypesRead(p)

SpecBackendRegistry == Init /\ [][NextBackendRegistry]_vars

----------------------------------------------------------------------------
(* state.Open on one database file from concurrent processes               *)

\* Open returns: the handle's transaction is gone, its write lock released.
\* fault tells whether a call of this Open failed by itself (I/O error, disk
\* full), as opposed to failing on what another connection did.
OpenReturn(p, err, fault) ==
    /\ mig' = [mig EXCEPT !.writer = IF @ = p THEN NoProc ELSE @,
                          !.cur[p] = 0, !.next[p] = 0, !.applied[p] = 0,
                          !.tx[p] = NoTx]
    /\ ret' = [op |-> "Open", by |-> p, err |-> err, applied |-> mig.applied[p],
               fault |-> fault]
    /\ cmd' = [cmd EXCEPT ![p] = "idle"]
    /\ Goto(p, "idle")

\* state.Open(path): directory, sql.Open and Ping
CallOpen(p) ==
    /\ cmd[p] = "idle"
    /\ \E connectOK \in BOOLEAN :
          IF connectOK
          THEN /\ cmd' = [cmd EXCEPT ![p] = "Open"]
               /\ Goto(p, "o_table")
               /\ ret' = [op |-> "Opening", by |-> p]
               /\ UNCHANGED mig
          ELSE /\ ret' = [op |-> "Open", by |-> p, err |-> TRUE, applied |-> 0,
                          fault |-> TRUE]
               /\ UNCHANGED <<cmd, pc, mig>>
    /\ UNCHANGED <<db, fs, loc, delLog, started, used, hist, ws, reg, gitcfg, sqlite>>

\* migrate: CREATE TABLE IF NOT EXISTS schema_migrations
MigrateCreateTable(p) ==
    /\ cmd[p] = "Open" /\ pc[p] = "o_table"
    /\ \E execOK \in BOOLEAN :
          IF execOK /\ (mig.table \/ mig.writer = NoProc)
          THEN /\ mig' = [mig EXCEPT !.table = TRUE]
               /\ Goto(p, "o_version")
               /\ UNCHANGED <<cmd, ret>>
          ELSE OpenReturn(p, TRUE, ~execOK)
    /\ UNCHANGED <<db, fs, loc, delLog, started, used, hist, ws, reg, gitcfg, sqlite>>

\* migrate: db.schemaVersion() and the search for the first pending migration
MigrateSchemaVersion(p) ==
    /\ cmd[p] = "Open" /\ pc[p] = "o_version"
    /\ \E queryOK \in BOOLEAN :
          IF ~queryOK THEN OpenReturn(p, TRUE, TRUE)
          ELSE IF schemaVersion(mig) >= MaxMigrations THEN OpenReturn(p, FALSE, FALSE)
          ELSE /\ mig' = [mig EXCEPT !.cur[p] = schemaVersion(mig),
                                     !.next[p] = schemaVersion(mig) + 1]
               /\ Goto(p, "m_begin")
               /\ UNCHANGED <<cmd, ret>>
    /\ UNCHANGED <<db, fs, loc, delLog, started, used, hist, ws, reg, gitcfg, sqlite>>

\* runMigration: db.Begin()
MigrateBegin(p) ==
    /\ cmd[p] = "Open" /\ pc[p] = "m_begin"
    /\ \E beginOK \in BOOLEAN :
          IF ~beginOK THEN OpenReturn(p, TRUE, TRUE)
          ELSE /\ mig' = [mig EXCEPT !.tx[p].open = TRUE]
               /\ Goto(p, "m_up")
               /\ UNCHANGED <<cmd, ret>>
    /\ UNCHANGED <<db, fs, loc, delLog, started, used, hist, ws, reg, gitcfg, sqlite>>

\* variant: the migration's statements are run outside the transaction
MigrateUp_AutoCommit(p) ==
    /\ cmd[p] = "Open" /\ pc[p] = "m_up"
    /\ \E execOK \in BOOLEAN :
          IF execOK /\ mig.writer \in {NoProc, p} /\ mig.next[p] \notin mig.schema
          THEN /\ mig' = [mig EXCEPT !.schema = @ \cup {mig.next[p]}]
               /\ Goto(p, "m_record")
               /\ UNCHANGED <<cmd, ret>>
          ELSE OpenReturn(p, TRUE, ~execOK)
    /\ UNCHANGED <<db, fs, loc, delLog, started, used, hist, ws, reg, gitcfg, sqlite>>

\* runMigration: tx.Exec(m.up).  The statements fail when another connection
\* holds the write lock or has committed the same migration (CREATE TABLE of
\* an existing table); on failure the deferred Rollback runs.
MigrateUp(p) ==
    /\ cmd[p] = "Open" /\ pc[p] = "m_up"
    /\ \E execOK \in BOOLEAN :
          IF execOK /\ mig.writer \in {NoProc, p} /\ mig.next[p] \notin mig.schema
          THEN /\ mig' = [mig EXCEPT !.writer = p, !.tx[p].schema = {mig.next[p]}]
               /\ Goto(p, "m_record")
               /\ UNCHANGED <<cmd, ret>>
          ELSE OpenReturn(p, TRUE, ~execOK)
    /\ UNCHANGED <<db, fs, loc, delLog, started, used, hist, ws, reg, gitcfg, sqlite>>

\* runMigration: INSERT INTO schema_migrations inside the transaction
MigrateRecord(p) ==
    /\ cmd[p] = "Open" /\ pc[p] = "m_record"
    /\ \E execOK \in BOOLEAN :
          IF execOK /\ mig.writer \in {NoProc, p} /\ mig.next[p] \notin mig.versions
          THEN /\ mig' = [mig EXCEPT !.writer = p, !.tx[p].versions = {mig.next[p]}]
               /\ Goto(p, "m_commit")
               /\ UNCHANGED <<cmd, ret>>
          ELSE OpenReturn(p, TRUE, ~execOK)
    /\ UNCHANGED <<db, fs, loc, delLog, started, used, hist, ws, reg, gitcfg, sqlite>>

\* runMigration: tx.Commit(), then the next migration of the loop or return
MigrateCommit(p) ==
    /\ cmd[p] = "Open" /\ pc[p] = "m_commit"
    /\ \E commitOK \in BOOLEAN :
          IF ~commitOK THEN OpenReturn(p, TRUE, TRUE)
          ELSE LET done == [mig EXCEPT !.schema = @ \cup mig.tx[p].schema,
                                       !.versions = @ \cup mig.tx[p].versions,
                                       !.writer = IF @ = p THEN NoProc ELSE @,
                                       !.applied[p] = @ + 1,
                                       !.tx[p] = NoTx]
               IN  IF mig.next[p] < MaxMigrations
                   THEN /\ mig' = [done EXCEPT !.next[p] = @ + 1]
                        /\ Goto(p, "m_begin")
                        /\ UNCHANGED <<cmd, ret>>
                   ELSE /\ mig' = [done EXCEPT !.cur[p] = 0, !.next[p] = 0, !.applied[p] = 0]
                        /\ ret' = [op |-> "Open", by |-> p, err |-> FALSE,
                                   applied |-> done.applied[p], fault |-> FALSE]
                        /\ cmd' = [cmd EXCEPT ![p] = "idle"]
                        /\ Goto(p, "idle")
    /\ UNCHANGED <<db, fs, loc, delLog, started, used, hist, ws, reg, gitcfg, sqlite>>

NextMigrate ==
    \E p \in Procs :
        \/ CallOpen(p)
        \/ MigrateCreateTable(p)
        \/ MigrateSchemaVersion(p)
        \/ MigrateBegin(p)
        \/ MigrateUp(p)
        \/ MigrateRecord(p)
        \/ MigrateCommit(p)

SpecMigrate == Init /\ [][NextMigrate]_vars

(* Backend.Create called directly, and git config run by hand in the       *)
(* repository and in the workspaces                                        *)

\* git config --worktree user.name <value> inside the main working tree or
\* a workspace Create returned
CallConfigWorktree ==
    /\ cmd[Caller] = "idle"
    /\ \E tree \in hist.live \cup {MainTree}, value \in {OriginalName, AgentName} :
          LET r == ConfigSetWorktree(gitcfg, fs, tree, value)
          IN  /\ gitcfg' = r.cfg
              /\ ret' = [op |-> "Config", tree |-> tree, value |-> value, err |-> r.err]
    /\ UNCHANGED <<db, fs, cmd, pc, loc, delLog, started, used, hist, ws, reg, mig, sqlite>>

\* git config extensions.worktreeConfig true run by hand in the repository
UserEnableExtension ==
    /\ cmd[Caller] = "idle"
    /\ ~gitcfg.extension
    /\ gitcfg' = [gitcfg EXCEPT !.extension = TRUE]
    /\ ret' = [op |-> "user"]
    /\ UNCHANGED <<db, fs, cmd, pc, loc, delLog, started, used, hist, ws, reg, mig, sqlite>>

NextConfig ==
    \/ CallCreate
    \/ CreateStat(Caller)
    \/ CreateAddWorktree(Caller)
    \/ CreateWriteMarker(Caller)
    \/ CreateCleanup(Caller)
    \/ CallCreateReturn
    \/ CallConfigWorktree
    \/ UserEnableExtension
SpecConfig == Init /\ [][NextConfig]_vars

(* Read calls on one registry from concurrent callers: goroutines sharing  *)
(* the connection pool of one DB value, or processes with a DB value each  *)

ReadRows == [status : {StatusReady, StatusProvisioning}, backend_id : {NoBackendID},
             backend : {DefaultBackend}, repo_path : {RepoRoot}, created_at : {0}]

\* a registry holding any committed rows
InitReads ==
    /\ db \in [IDs -> ReadRows \cup {NoRow}]
    /\ fs = EmptyFS
    /\ cmd = [p \in Procs |-> "idle"]
    /\ pc = [p \in Procs |-> "idle"]
    /\ loc = [p \in Procs |-> LocInit]
    /\ ret = [op |-> "none"]
    /\ delLog = [id \in IDs |-> <<>>]
    /\ started = 0
    /\ used = {}
    /\ hist = HistInit
    /\ ws = WsInit
    /\ reg = RegInit
    /\ mig = MigInit
    /\ gitcfg = GitConfigInit
    /\ sqlite \in {[SqliteInit EXCEPT !.maxOpen = n] : n \in MaxOpenConns}

ReadFrame == UNCHANGED <<db, fs, cmd, pc, loc, ret, delLog, started, used, hist, ws, reg, mig, gitcfg>>

\* a caller enters one of the read methods
CallRead(p) ==
    /\ sqlite.call[p].pc = "idle"
    /\ \E c \in ReadCalls : sqlite' = [sqlite EXCEPT !.call[p] = c]
    /\ ReadFrame

\* database/sql hands out a connection, waiting while the pool is exhausted
ReadConn(p) ==
    /\ sqlite.call[p].pc = "conn"
    /\ sqlite.maxOpen = 0 \/ Cardinality(sqlite.inUse) < sqlite.maxOpen
    /\ sqlite' = [sqlite EXCEPT !.inUse = @ \cup {p}, !.call[p].pc = "lock"]
    /\ ReadFrame

\* the statement starts: SQLite takes a SHARED lock on the file, or the
\* statement fails at once (no busy timeout is configured)
ReadLock(p) ==
    /\ sqlite.call[p].pc = "lock"
    /\ IF CanShare(sqlite)
       THEN sqlite' = [sqlite EXCEPT !.shared = @ \cup {p}, !.call[p].pc = "query"]
       ELSE sqlite' = [sqlite EXCEPT !.inUse = @ \ {p},
                                     !.call[p] = [@ EXCEPT !.pc = "done"] @@ [err |-> ErrBusy]]
    /\ ReadFrame

\* the rows are scanned, the statement is closed and the connection returned
ReadQuery(p) ==
    /\ sqlite.call[p].pc = "query"
    /\ \E r \in ReadResults(db, sqlite.call[p]) :
          sqlite' = [sqlite EXCEPT !.shared = @ \ {p}, !.inUse = @ \ {p},
                                   !.call[p] = [@ EXCEPT !.pc = "done"] @@ r]
    /\ ReadFrame

\* the method returns to its caller
ReadReturn(p) ==
    /\ sqlite.call[p].pc = "done"
    /\ sqlite' = [sqlite EXCEPT !.call[p] = NoCall]
    /\ ReadFrame

NextReads ==
    \E p \in Procs :
       \/ CallRead(p)
       \/ ReadConn(p)
       \/ ReadLock(p)
       \/ ReadQuery(p)
       \/ ReadReturn(p)
SpecReads == InitReads /\ [][NextReads]_vars

\* CountEnvironments on any table
CallCountEnvironments ==
    /\ ret.op = "none"
    /\ \E opts \in ListOptions :
          ret' = [op |-> "count", opts |-> opts, err |-> ErrNil,
                  count |-> CountEnvironments(db, opts)]
    /\ UNCHANGED <<db, fs, cmd, pc, loc, delLog, started, used, hist, ws, reg, mig, gitcfg, sqlite>>

NextCount == CallCountEnvironments
SpecCount == InitList /\ [][NextCount]_vars

(* Backend.Create called by two callers at the same time *)

\* b.Create(ctx, cfg) with a valid request
CallCreateConcurrently(p) ==
    /\ cmd[p] = "idle"
    /\ \E id \in BackendIDs :
          loc' = [loc EXCEPT ![p] = [LocInit EXCEPT !.id = id, !.repoPath = RepoRoot]]
    /\ cmd' = [cmd EXCEPT ![p] = "Create"]
    /\ Goto(p, "c_stat")
    /\ UNCHANGED <<db, fs, ret, delLog, started, used, hist, ws, reg, mig, gitcfg, sqlite>>

\* Create has returned; the caller keeps what it was given
CreateReturned(p) ==
    /\ cmd[p] = "Create" /\ pc[p] = "c_ret"
    /\ Goto(p, "done")
    /\ UNCHANGED <<db, fs, cmd, loc, ret, delLog, started, used, hist, ws, reg, mig, gitcfg, sqlite>>

NextCreateRace ==
    \E p \in Procs :
       \/ CallCreateConcurrently(p)
       \/ CreateStat(p)
       \/ CreateAddWorktree(p)
       \/ CreateWriteMarker(p)
       \/ CreateCleanup(p)
       \/ CreateReturned(p)
SpecCreateRace == Init /\ [][NextCreateRace]_vars

(* Lists of file mounts applied to one workspace again and again; targets  *)
(* are absolute paths of the host, as the configuration requires            *)

MaxMounts == 2

RemountSources == {SrcFile, SrcDir}
RemountTargets == {AbsTarget, SrcDir}
RemountFiles == [source : RemountSources, target : RemountTargets, readOnly : BOOLEAN]
RemountLists == UNION {[1..n -> RemountFiles] : n \in 1..MaxMounts}

\* r.handleFiles(files)
CallHandleFiles ==
    /\ cmd[Caller] = "idle"
    /\ \E files \in RemountLists :
          LET r == handleFiles(ws, files)
          IN  /\ ws' = r.ws
              /\ ret' = [op |-> "mounts", files |-> files, err |-> r.err]
    /\ UNCHANGED <<db, fs, cmd, pc, loc, delLog, started, used, hist, reg, mig, gitcfg, sqlite>>

NextRemount ==
    \/ CallHandleFiles
    \/ UserWrite
SpecRemount == Init /\ [][NextRemount]_vars

(* The workspace path Create computes for a request *)

\* ShortIDLength (internal/state/id.go)
ShortIDLength == 12

\* ShortID(id): the first ShortIDLength characters
ShortID(id) == IF Len(id) < ShortIDLength THEN id ELSE SubSeq(id, 1, ShortIDLength)

\* filepath.Dir of a path given by its components
Dir(path) == SubSeq(path, 1, Len(path) - 1)

\* worktreePath := filepath.Join(filepath.Dir(repoRoot), worktreePrefix+cfg.TaskID):
\* the directory and the name inside it
worktreePath(repoRoot, taskID) == [dir |-> Dir(repoRoot), base |-> WorktreePath(taskID)]

\* $XDG_DATA_HOME/choir/worktrees, where the documentation places the workspaces
ManagedRoot == <<"/", "home", "u", ".local", "share", "choir", "worktrees">>

\* ids of ten to thirteen characters
MaxTail == 3
IdHead == [i \in 1..10 |-> "a"]
RequestIDs == {IdHead \o tail : tail \in UNION {[1..n -> {"a", "b"}] : n \in 0..MaxTail}}

\* repositories: in the home directory, in a projects directory, and one
\* that lies in the managed root itself
RequestRepos ==
    {<<"/", "home", "u", "repo">>, <<"/", "home", "u", "other">>,
     <<"/", "srv", "projects", "repo">>, ManagedRoot \o <<"repo">>}

InitPath ==
    /\ db = [id \in IDs |-> NoRow]
    /\ fs = EmptyFS
    /\ cmd = [p \in Procs |-> "idle"]
    /\ pc = [p \in Procs |-> "idle"]
    /\ loc = [p \in Procs |-> LocInit]
    /\ ret \in {[op |-> "request", id |-> id, repoPath |-> repo] :
                   id \in RequestIDs, repo \in RequestRepos}
    /\ delLog = [id \in IDs |-> <<>>]
    /\ started = 0
    /\ used = {}
    /\ hist = HistInit
    /\ ws = WsInit
    /\ reg = RegInit
    /\ mig = MigInit
    /\ gitcfg = GitConfigInit
    /\ sqlite = SqliteInit

\* Create on a clean host, every step succeeding: the backendID returned
CreateReturnsPath ==
    /\ ret.op = "request"
    /\ ret' = [op |-> "created", id |-> ret.id, repoPath |-> ret.repoPath,
               backendID |-> worktreePath(ret.repoPath, ret.id)]
    /\ UNCHANGED <<db, fs, cmd, pc, loc, delLog, started, used, hist, ws, reg, mig, gitcfg, sqlite>>

NextPath == CreateReturnsPath
SpecPath == InitPath /\ [][NextPath]_vars

----------------------------------------------------------------------------
(* Backend.Create: outcome when the call returns (pc = "c_ret") *)

Returned(p) == pc[p] = "c_ret"

CreateSucceeded(p) ==
    LET id == loc[p].id IN
    /\ id \in fs.dirs
    /\ id \in fs.markers
    /\ Status(fs, WorktreePath(id), NoStatFault) = StateRunning

\* the call left a workspace directory that did not exist before it
NewDirectoryLeft(p) == loc[p].id \in fs.dirs /\ ~loc[p].preExists

TriplePresent(id) == id \in fs.dirs /\ id \in fs.branches /\ id \in fs.markers
TripleAbsent(id) == id \notin fs.dirs /\ id \notin fs.branches /\ id \notin fs.markers

\* C2: when the marker write fails after the worktree was added, Create
\* destroys the worktree before returning, so that it returns with the triple
\* (directory, branch, marker) entirely present or entirely absent.  Stated
\* for the calls whose cleanup Destroy returned nil.
C2_TripleAllOrNothing ==
    \A p \in Procs :
        (Returned(p) /\ loc[p].added /\ loc[p].beErr /\ ~loc[p].cleanupErr) =>
            (TriplePresent(loc[p].id) \/ TripleAbsent(loc[p].id))

----------------------------------------------------------------------------
(* Registry rows under direct calls *)

AllowedEdges ==
    {<<StatusProvisioning, StatusReady>>, <<StatusProvisioning, StatusFailed>>,
     <<StatusReady, StatusRemoved>>, <<StatusFailed, StatusRemoved>>}

\* C3: every change of a stored row's status follows one of the edges
\* Provisioning->Ready, Provisioning->Failed, Ready->Removed, Failed->Removed;
\* in particular no operation changes the status of a Removed row.
C3_StatusEdges ==
    [][\A id \in IDs :
          (db[id] # NoRow /\ db'[id] # NoRow /\ db'[id].status # db[id].status)
              => <<db[id].status, db'[id].status>> \in AllowedEdges]_vars

\* C4: once a row's backend_id is set, no operation changes or clears it
\* while the row exists.
C4_BackendIDSetOnce ==
    [][\A id \in IDs :
          (db[id] # NoRow /\ db'[id] # NoRow /\ db[id].backend_id # NoBackendID)
              => db'[id].backend_id = db[id].backend_id]_vars

----------------------------------------------------------------------------
(* env create and env rm *)

CreateDone(p) == cmd[p] = "create" /\ pc[p] = "done"

\* C5: when a create invocation whose provisional row was inserted returns
\* an error, the row still exists with status Failed.
C5_FailureLeavesFailedRow ==
    \A p \in Procs :
        (CreateDone(p) /\ loc[p].inserted /\ loc[p].err) =>
            /\ db[loc[p].id] # NoRow
            /\ db[loc[p].id].status = StatusFailed

InBackendCreate(p) == pc[p] \in {"c_stat", "c_add", "c_marker", "c_cleanup", "c_ret"}

\* C6: the create flow invokes the backend only after CreateEnvironment
\* inserted the provisional row; an invocation whose insert failed returns
\* without any backend operation, and no workspace directory or branch
\* exists for its id.
C6_InsertBeforeBackend ==
    \A p \in Procs :
        cmd[p] = "create" =>
            /\ (InBackendCreate(p) \/ loc[p].beCalled) => loc[p].inserted
            /\ (pc[p] = "done" /\ ~loc[p].inserted) =>
                  /\ ~loc[p].beCalled
                  /\ loc[p].id \notin fs.dirs
                  /\ loc[p].id \notin fs.branches

\* an invocation returned because its insert failed
C6_Witness ==
    \E p \in Procs : CreateDone(p) /\ ~loc[p].inserted /\ loc[p].err

BecomesReady(id) ==
    /\ db'[id] # NoRow /\ db'[id].status = StatusReady
    /\ db[id] = NoRow \/ db[id].status # StatusReady

\* C7: a row becomes Ready only by a create invocation whose backend Create
\* succeeded, whose backend identifier is stored in the row, and whose setup
\* run, when performed, returned no error; every Ready row has the worktree
\* path of its id as backend_id.
C7_ReadyOnlyAfterProvisioned ==
    /\ [](\A id \in IDs :
            (db[id] # NoRow /\ db[id].status = StatusReady)
                => db[id].backend_id = WorktreePath(id))
    /\ [][\A id \in IDs :
            BecomesReady(id) =>
                \E p \in Procs :
                    /\ cmd[p] = "create" /\ pc[p] = "cr_ready" /\ loc[p].id = id
                    /\ loc[p].inserted /\ loc[p].added /\ ~loc[p].beErr
                    /\ db[id] # NoRow /\ db[id].backend_id = WorktreePath(id)
                    /\ loc[p].setup => ~loc[p].setupErr]_vars

\* a create invocation that ran setup returned success and left its row Ready
C7_Witness ==
    \E p \in Procs :
        /\ CreateDone(p) /\ ~loc[p].err /\ loc[p].setup
        /\ db[loc[p].id] # NoRow /\ db[loc[p].id].status = StatusReady

\* C8: once rm proceeds to Destroy, it goes on to DeleteEnvironment whatever
\* Destroy returned, and when rm returns the row is gone.
C8_RmDeletesRow ==
    [][\A p \in Procs :
          /\ (pc[p] = "rm_destroy" /\ pc'[p] # "rm_destroy") => pc'[p] = "rm_delete"
          /\ (pc[p] = "rm_delete" /\ pc'[p] = "done") => db'[loc[p].id] = NoRow]_vars

\* rm returned after a failed Destroy and the row is gone
C8_Witness ==
    \E p \in Procs :
        /\ cmd[p] = "rm" /\ pc[p] = "done" /\ loc[p].destroyErr
        /\ db[loc[p].id] = NoRow

----------------------------------------------------------------------------
(* Registry methods *)

StartsWith(id, prefix) ==
    Len(prefix) <= Len(id) /\ SubSeq(id, 1, Len(prefix)) = prefix

Folded(s) == [i \in 1..Len(s) |-> FoldCase(s[i])]

StartsWithFolded(id, prefix) == StartsWith(Folded(id), Folded(prefix))

OnlyHex(prefix) == {prefix[i] : i \in 1..Len(prefix)} \subseteq HexDigits

\* what a lookup of ret.prefix must have returned when Matching(id, prefix)
\* tells which stored ids the prefix selects
LookupAgrees(Matching(_, _)) ==
    LET prefix == ret.prefix
        matches == {id \in Stored(db) : Matching(id, prefix)}
    IN  IF prefix = <<>> \/ ~OnlyHex(prefix)
        THEN ret.err = ErrInvalidPrefix /\ ret.envs = {}
        ELSE IF matches = {} THEN ret.err = ErrEnvironmentNotFound /\ ret.envs = {}
        ELSE IF Cardinality(matches) = 1
             THEN ret.err = ErrNil /\ ret.envs = {Env(db, id) : id \in matches}
        ELSE /\ ret.err = ErrAmbiguousPrefix
             /\ ret.envs = {Env(db, id) : id \in matches}

\* C10 (as claimed): GetEnvironmentByPrefix(p) returns ErrInvalidPrefix for an
\* empty or non-hexadecimal p, and otherwise not-found, the environment, or
\* an AmbiguousPrefixError with exactly the matches, according to the stored
\* ids that start with p.
C10_PrefixLookup ==
    ret.op = "getByPrefix" => LookupAgrees(StartsWith)

\* C10 (amended): the same, the stored ids selected being those that start
\* with p when ASCII letter case is ignored.
C10_PrefixLookupIgnoringCase ==
    ret.op = "getByPrefix" => LookupAgrees(StartsWithFolded)

\* an uppercase prefix was looked up and matched two stored ids
C10_Witness ==
    /\ ret.op = "getByPrefix" /\ ret.prefix = <<"A">>
    /\ ret.err = ErrAmbiguousPrefix /\ Cardinality(ret.envs) = 2

----------------------------------------------------------------------------
(* Registry boundary *)

InvalidStatusArgs == StatusArgs \ {"provisioning", "ready", "failed", "removed"}

\* C11: every stored row has a status among provisioning, ready, failed and
\* removed; CreateEnvironment and UpdateEnvironment called with any other
\* status return ErrInvalidStatus and leave the table unchanged.
C11_OnlyValidStatuses ==
    /\ \A id \in Stored(db) : db[id].status \in {"provisioning", "ready", "failed", "removed"}
    /\ \A id \in IDs, st \in InvalidStatusArgs, t \in CreatedAtArgs :
          \A bid \in BackendIDArgs(id) :
             LET env == Environment(id, st, bid, DefaultBackend, RepoRoot, t)
             IN  /\ CreateEnvironment(db, env, FALSE) = Result(db, ErrInvalidStatus)
                 /\ UpdateEnvironment(db, env, FALSE) = Result(db, ErrInvalidStatus)

\* a call with an invalid status was rejected while rows are stored
C11_Witness ==
    /\ ret.op \in {"create", "update"} /\ ret.err = ErrInvalidStatus
    /\ db[ret.id] # NoRow

C13_DuplicateRejected ==
    [][(ret'.op = "create" /\ db[ret'.id] # NoRow) =>
          (ret'.err # ErrNil /\ db' = db)]_vars

\* a valid insert was refused because its id is stored
C13_Witness ==
    ret.op = "create" /\ ret.err = ErrExec /\ db[ret.id] # NoRow

\* the stored ids that satisfy every filter that was supplied
Wanted(opts) ==
    {id \in Stored(db) :
        /\ opts.RepoPath # "" => db[id].repo_path = opts.RepoPath
        /\ opts.Backend # "" => db[id].backend = opts.Backend
        /\ opts.Statuses # {} => db[id].status \in opts.Statuses}

\* C14: ListEnvironments(opts) returns exactly the stored rows that satisfy
\* every supplied filter, each once, all rows when no filter is supplied, in
\* non-increasing created_at order.
C14_ListFiltersAndOrder ==
    ret.op = "list" =>
        /\ ret.err = ErrNil
        /\ Len(ret.envs) = Cardinality(Wanted(ret.opts))
        /\ {ret.envs[i] : i \in 1..Len(ret.envs)} = {Env(db, id) : id \in Wanted(ret.opts)}
        /\ \A i, j \in 1..Len(ret.envs) :
              i < j => ret.envs[i].created_at >= ret.envs[j].created_at
        /\ (ret.opts = ListOption("", "", {})) => Len(ret.envs) = Cardinality(Stored(db))

\* a listing with a backend and a status filter returned two rows of
\* different seconds and left a stored row out
C14_Witness ==
    /\ ret.op = "list" /\ ret.opts.Backend # "" /\ ret.opts.Statuses # {}
    /\ Len(ret.envs) = 2 /\ ret.envs[1].created_at > ret.envs[2].created_at
    /\ Cardinality(Stored(db)) = 3

----------------------------------------------------------------------------
(* Backend methods called directly *)

\* C15: Status reports NotFound when the path is absent, Error when the path
\* exists but is not a directory holding the marker, Running otherwise; a
\* directory without the marker never reports Running.
C15_StatusClassifies ==
    ret.op = "Status" =>
        /\ ~PathExists(fs, ret.path) => ret.state = StateNotFound
        /\ (PathExists(fs, ret.path) /\ ~(IsDir(fs, ret.path) /\ HasMarker(fs, ret.path)))
              => ret.state = StateError
        /\ (IsDir(fs, ret.path) /\ HasMarker(fs, ret.path)) => ret.state = StateRunning

C17_DestroyRemovesWorktree ==
    (ret.op = "Destroy" /\ ~ret.err /\ ret.managed) =>
        /\ ~PathExists(fs, ret.path)
        /\ ret.path \notin ListedWorktrees(fs)

C19_InvalidRequestRejected ==
    [][\A p \in Procs :
          (pc[p] = "c_stat" /\ pc'[p] # "c_stat" /\ ~ValidRequest(loc[p])) =>
              /\ pc'[p] = "c_ret" /\ loc'[p].beErr /\ ~loc'[p].added
              /\ fs' = fs /\ db' = db]_vars

\* a Create without id returned its error in a repository holding a workspace
C19_Witness ==
    /\ Returned(Caller) /\ loc[Caller].id = <<>> /\ loc[Caller].beErr
    /\ hist.live # {}

\* C20: Create for an id whose path exists returns an error without running
\* git worktree add and leaves the directory, marker and branch as they are;
\* a Create for a workspace that was created and not destroyed fails.
C20_ExistingPathRejected ==
    /\ [][\A p \in Procs :
            (/\ pc[p] = "c_stat" /\ pc'[p] # "c_stat" /\ ValidRequest(loc[p])
             /\ PathExists(fs, WorktreePath(loc[p].id))) =>
                /\ pc'[p] = "c_ret" /\ loc'[p].beErr /\ ~loc'[p].added
                /\ fs' = fs]_vars
    /\ [](\A p \in Procs :
            (cmd[p] = "Create" /\ Returned(p) /\ loc[p].id \in hist.live) => loc[p].beErr)

\* the second of two Creates for one id returned its error
C20_Witness ==
    /\ cmd[Caller] = "Create" /\ Returned(Caller) /\ loc[Caller].id \in hist.live
    /\ loc[Caller].beErr /\ loc[Caller].preExists

----------------------------------------------------------------------------
(* Setup runner, export artifact, file mounts, Exec and Shell *)

\* the commands started so far, in the order they were started
CommandsStarted == SelectSeq(ws.log, LAMBDA e : e.kind = "command")

\* C21: when command k is the first to fail, commands 1..k-1 and k have each
\* been started once, in list order, the error Run returns names k, and no
\* further command is started.
C21_FirstFailureAborts ==
    /\ []((Running /\ ws.err.kind = "command") =>
            /\ pc[Caller] = "r_ret"
            /\ CommandsStarted = [i \in 1..ws.err.index |-> Command(i)])
    /\ [][(Running /\ ws.err.kind = "command") => ws'.log \in {ws.log, <<>>}]_vars

\* the second of two commands failed
C21_Witness ==
    /\ Running /\ ws.err = ErrCommand(2) /\ ws.cfg.SetupCommands = 2
    /\ CommandsStarted = <<Command(1), Command(2)>>

\* everything a Run with n commands does, in order
FullLog(n) ==
    <<Phase("environment"), Phase("files"), Phase("commands")>> \o [i \in 1..n |-> Command(i)]

\* C22: the phases run in the order environment, file mounts, commands; a
\* context found cancelled at the call or at a phase boundary makes Run
\* return an error with no later phase entered, and a context cancelled at
\* the call leaves every file as it was.
C22_PhasesInOrder ==
    /\ [](Running => /\ Len(ws.log) <= Len(FullLog(ws.cfg.SetupCommands))
                     /\ ws.log = SubSeq(FullLog(ws.cfg.SetupCommands), 1, Len(ws.log)))
    /\ [][(Running /\ pc[Caller] \in {"r_files", "r_cmds"} /\ ws.cancelled
           /\ pc'[Caller] # pc[Caller]) =>
              /\ pc'[Caller] = "r_ret" /\ ws'.err = ErrContext
              /\ ws'.log = ws.log /\ ws'.envfile = ws.envfile /\ ws'.tree = ws.tree]_vars
    /\ [][(~Running /\ Running' /\ ws'.cancelled) =>
              /\ pc'[Caller] = "r_ret" /\ ws'.err # SetupOK /\ ws'.log = <<>>
              /\ ws'.envfile = ws.envfile /\ ws'.tree = ws.tree /\ ws'.data = ws.data]_vars

\* a Run whose context was cancelled during the environment phase returned
\* at the boundary, its mounts and commands not entered
C22_Witness ==
    /\ Running /\ pc[Caller] = "r_ret" /\ ws.err = ErrContext
    /\ ws.log = <<Phase("environment")>> /\ ws.cfg.Files # <<>> /\ ws.cfg.SetupCommands > 0
    /\ ws.envfile # NoFile

\* C23: writing a variable map to the export artifact and sourcing the
\* artifact yields exactly the variables of the map, each with its value.
C23_ExportRoundTrip ==
    (ret.op = "source" /\ ~ret.err) => (ret.ok /\ ret.env = ws.cfg.Environment)

\* two variables went through, one value holding a quote and one a $name
C23_Witness ==
    /\ ret.op = "source" /\ ~ret.err
    /\ DOMAIN ret.env = {"A", "B"}
    /\ ret.env["A"] = <<Quote, Quote>> /\ ret.env["B"] = <<Dollar, "a">>

\* C24: with an empty variable map the environment phase creates no export
\* artifact and changes no file.
C24_EmptyMapWritesNothing ==
    [][(Running /\ pc[Caller] = "r_env" /\ pc'[Caller] # "r_env"
        /\ DOMAIN ws.cfg.Environment = {}) =>
           (ws'.envfile = ws.envfile /\ ws'.tree = ws.tree /\ ws'.data = ws.data)]_vars

\* the environment phase of a Run with an empty map is over, no artifact there
C24_Witness ==
    /\ Running /\ DOMAIN ws.cfg.Environment = {} /\ pc[Caller] = "r_files"
    /\ ws.envfile = NoFile

\* where the target of a mount is to be
ExpectedTarget(fm) == IF Head(fm.target) = "/" THEN fm.target ELSE WorkDir \o fm.target

\* C25: a read-only mount whose source exists leaves at the target (resolved
\* against the workspace root when relative) a symbolic link to the source.
C25_ReadOnlyMountLinks ==
    (ret.op = "mount" /\ ~ret.err /\ ret.fm.readOnly) =>
        ws.tree[ExpectedTarget(ret.fm)] = LinkNode(ret.fm.source)

\* a relative target became a link to the source directory
C25_Witness ==
    /\ ret.op = "mount" /\ ~ret.err /\ ret.fm.readOnly
    /\ ret.fm.target = RelTarget /\ ret.fm.source = SrcDir
    /\ ws.tree[WorkDir \o RelTarget].kind = "symlink"

\* content of the source files
SourceContent(w) ==
    <<w.tree[SrcFile], w.data[1], w.tree[SrcDir], w.tree[SrcDir \o Child], w.data[2]>>

\* dst is a copy of the file src that has an inode of its own
IsFileCopy(w, src, dst) ==
    /\ w.tree[dst].kind = "file" /\ w.tree[dst].ino # w.tree[src].ino
    /\ w.data[w.tree[dst].ino] = w.data[w.tree[src].ino]

\* C26: a writable mount leaves at the target a copy of the source (file, or
\* directory with what it holds) that is no link and has its own storage;
\* writing to or deleting that copy leaves the source as it is.
C26_WritableMountCopies ==
    /\ []((ret.op = "mount" /\ ~ret.err /\ ~ret.fm.readOnly) =>
            IF ret.fm.source = SrcFile
            THEN IsFileCopy(ws, SrcFile, ExpectedTarget(ret.fm))
            ELSE /\ ws.tree[ExpectedTarget(ret.fm)] = DirNode
                 /\ IsFileCopy(ws, SrcDir \o Child, ExpectedTarget(ret.fm) \o Child))
    /\ [][(ret'.op \in {"write", "remove"} /\ ws.tree[ret'.top].kind # "symlink") =>
              SourceContent(ws') = SourceContent(ws)]_vars

\* the file inside a copied directory was overwritten, the source keeping
\* its content
C26_Witness ==
    /\ ret.op = "write" /\ ret.path = AbsTarget \o Child
    /\ ws.tree[AbsTarget] = DirNode
    /\ ws.data[ws.tree[AbsTarget \o Child].ino] = EditedData
    /\ ws.data[2] = OriginalData

\* C27: Exec and Shell run in the workspace root; when the export artifact
\* is there the command sees every variable written to it with its value,
\* and when it is not the command runs with nothing sourced.
C27_ExecSeesEnvironment ==
    (ret.op \in {"Exec", "Shell"} /\ ~ret.err) =>
        /\ ret.dir = WorkDir /\ ret.run
        /\ ws.envfile # NoFile => ret.env = ws.written
        /\ ws.envfile = NoFile => ~ret.sourced

----------------------------------------------------------------------------
(* Backend registry *)

----------------------------------------------------------------------------
(* Schema migrations *)

\* C30: the versions recorded in schema_migrations are at every moment
\* those of the migrations whose schema changes are committed, and nothing
\* done on a database at the latest version changes schema or versions.
C30_MigrationsAtomic ==
    /\ [](mig.schema = mig.versions)
    /\ [][(mig.table /\ mig.versions = Versions) =>
             (mig'.table /\ mig'.schema = mig.schema /\ mig'.versions = mig.versions)]_vars
    /\ []((ret.op = "Open" /\ ~ret.err) => mig.versions = Versions)

\* an Open of a database at the latest version returned, nothing applied,
\* after an Open that had applied every migration
C30_Witness ==
    /\ ret.op = "Open" /\ ~ret.err /\ ret.applied = 0
    /\ mig.schema = Versions /\ mig.versions = Versions
    /\ \A p \in Procs : cmd[p] = "idle"

----------------------------------------------------------------------------
(* Per-worktree git configuration *)

\* the working trees in which a value can be read: the main one and the
\* workspaces Create returned
ReadableTrees == hist.live \cup {MainTree}

ConfigStep == ret'.op = "Config" /\ ~ret'.err /\ gitcfg' # gitcfg

\* C31: after Create succeeds the per-worktree configuration extension is
\* enabled on the main repository, and a value set with worktree scope inside
\* one managed workspace becomes the value read in that workspace while the
\* main repository and every sibling workspace read the value they read before.
C31_ConfigIsolated ==
    /\ [](ret.op = "Created" /\ ~ret.err => gitcfg.extension)
    /\ [][ConfigStep /\ ret'.tree # MainTree =>
            /\ ConfigGet(gitcfg', ret'.tree) = ret'.value
            /\ \A tree \in ReadableTrees \ {ret'.tree} :
                  ConfigGet(gitcfg', tree) = ConfigGet(gitcfg, tree)]_vars

----------------------------------------------------------------------------
(* Concurrent readers *)

ReadDone(p) == sqlite.call[p].pc = "done"

\* C32: concurrent read calls on one registry (GetEnvironment,
\* GetEnvironmentByPrefix, ListEnvironments, CountEnvironments), from
\* goroutines of one process or from several processes, all succeed and
\* return the committed rows, and no read operation modifies the registry.
C32_ConcurrentReads ==
    /\ [](\A p \in Procs :
            ReadDone(p) =>
               /\ sqlite.call[p].err # ErrBusy
               /\ \E r \in ReadResults(db, sqlite.call[p]) :
                     \A f \in DOMAIN r : sqlite.call[p][f] = r[f])
    /\ [][db' = db]_vars

\* a read returned a row while the other caller, on a connection of its own,
\* held its SHARED lock
C32_Witness ==
    /\ ReadDone("p1") /\ sqlite.call["p1"].op = "GetEnvironmentByPrefix"
    /\ sqlite.call["p1"].err = ErrNil /\ sqlite.call["p1"].envs # {}
    /\ "p2" \in sqlite.shared /\ sqlite.call["p2"].op = "ListEnvironments"
    /\ Cardinality(Stored(db)) >= 2

----------------------------------------------------------------------------
(* env create and env rm racing on one environment *)

\* one create and one rm of the same environment have both returned
CreateAndRmReturned(p, q) ==
    /\ cmd[p] = "create" /\ pc[p] = "done"
    /\ cmd[q] = "rm" /\ pc[q] = "done"
    /\ loc[q].id = loc[p].id

\* the managed workspace directories: those holding the marker
ManagedWorkspaces == fs.dirs \cap fs.markers

\* C33: for any interleaving of one create and one rm of the same environment
\* run as separate processes, once both have returned every managed workspace
\* directory of that environment has a registry row whose backend_id names it.
C33_NoOrphanWorkspace ==
    \A p, q \in Procs :
       CreateAndRmReturned(p, q) /\ loc[p].id \in ManagedWorkspaces =>
          /\ db[loc[p].id] # NoRow
          /\ db[loc[p].id].backend_id = WorktreePath(loc[p].id)

----------------------------------------------------------------------------
(* Concurrent Create calls *)

\* Create called by p has returned, having passed the existence check
ReturnedPastCheck(p) ==
    cmd[p] = "Create" /\ pc[p] = "done" /\ loc[p].beCalled /\ ~loc[p].preExists

\* C34: when two Create calls for the same id and repository run concurrently,
\* both passing the existence check, at most one returns success, and after
\* both have returned the workspace of the successful caller (directory,
\* branch, marker) is intact.
C34_ConcurrentCreate ==
    \A p, q \in Procs :
       p # q /\ ReturnedPastCheck(p) /\ ReturnedPastCheck(q) /\ loc[p].id = loc[q].id =>
          /\ loc[p].beErr \/ loc[q].beErr
          /\ ~loc[p].beErr => TriplePresent(loc[p].id)

\* p1 succeeded and p2, past the check for the same id, failed in git worktree add
C34_Witness ==
    /\ ReturnedPastCheck("p1") /\ ReturnedPastCheck("p2")
    /\ loc["p1"].id = loc["p2"].id
    /\ ~loc["p1"].beErr /\ loc["p2"].beErr /\ ~loc["p2"].added
    /\ TriplePresent(loc["p1"].id)

----------------------------------------------------------------------------
(* Concurrent Open of a database that is not migrated yet *)

\* C35: when two processes Open the same not-yet-migrated database file
\* concurrently, every migration is applied exactly once and both Open calls
\* succeed with the schema at the latest version: an Open none of whose own
\* calls failed returns nil, and the schema is then complete.
C35_ConcurrentOpen ==
    (ret.op = "Open" /\ ~ret.fault) =>
        /\ ~ret.err
        /\ mig.schema = Versions /\ mig.versions = Versions

----------------------------------------------------------------------------
(* File mounts applied again *)

\* what a path holds: the kind of entry and, for a file, its bytes
Entry(w, path) ==
    IF w.tree[path].kind = "file"
    THEN [kind |-> "file", data |-> w.data[w.tree[path].ino]]
    ELSE w.tree[path]

SameFiles(w1, w2) == \A path \in AllPaths : Entry(w1, path) = Entry(w2, path)

\* the same list is applied in this step as in the step before, which succeeded
AppliedAgain ==
    /\ ret.op = "mounts" /\ ~ret.err
    /\ ret'.op = "mounts" /\ ret'.files = ret.files

\* one mount is applied in this step, its source being there and its target
\* holding an entry
ReplacingMount ==
    /\ ret'.op = "mounts" /\ Len(ret'.files) = 1
    /\ NodeAt(ws.tree, ret'.files[1].source).kind \in {"file", "dir"}
    /\ ws.tree[Resolve(ret'.files[1].target)].kind # "none"

\* C36: applying the same file-mount list twice leaves the workspace as
\* applying it once does, and a mount whose target already holds a file,
\* directory or symlink replaces that entry without error and without
\* modifying or removing the mount's source.
C36_MountsIdempotent ==
    /\ [][AppliedAgain => ~ret'.err /\ SameFiles(ws', ws)]_vars
    /\ [][ReplacingMount =>
            /\ ~ret'.err
            /\ \A path \in {ret'.files[1].source, ret'.files[1].source \o Child} :
                  Entry(ws', path) = Entry(ws, path)]_vars

----------------------------------------------------------------------------
(* Workspace path *)

\* C37: the backendID a successful Create returns is the path
\* <managed root>/choir-<first 12 characters of the id>, under the managed
\* root and not beside the repository; it depends on the id alone.
C37_DeterministicPath ==
    ret.op = "created" =>
        /\ ret.backendID.dir = ManagedRoot
        /\ ret.backendID.base = WorktreePath(ShortID(ret.id))

----------------------------------------------------------------------------
(* Counting *)

\* C38: for every filter and every table, CountEnvironments(opts) returns
\* the length of the slice ListEnvironments(opts) returns on the same table.
C38_CountMatchesList ==
    ret.op = "count" =>
        /\ ret.err = ErrNil
        /\ ListEnvironments(db, ret.opts) # {}
        /\ \A envs \in ListEnvironments(db, ret.opts) : ret.count = Len(envs)

\* a count with a status filter that selects two of three stored rows
C38_Witness ==
    /\ ret.op = "count"
    /\ ret.opts.Statuses = {StatusReady}
    /\ Cardinality(Stored(db)) = 3
    /\ ret.count = 2

====
